---- MODULE Spec2Model ----
(***************************************************************************)
(* Verification model of the content evaluator's link health checker      *)
(* (server/lib/linkChecker.ts): extractLinks, checkLinkStatus, checkLinks. *)
(*                                                                         *)
(* Strings are sequences of one-character strings.  Three multi-character  *)
(* lexemes of the source text are written as one token each:               *)
(*   "H"  the scheme prefix  http://                                       *)
(*   "S"  the scheme prefix  https://                                      *)
(*   "A"  the anchor opener  <a href=                                      *)
(* Every other token is the character itself.                              *)
(***************************************************************************)
EXTENDS Integers, Sequences, FiniteSets, TLC

\* ------------------------------------------------------------------ bounds
\* Largest number of distinct bare URLs in a generated many-link document.
MaxUrls == 7
\* Largest number of phrases in a generated short document.
MaxPhrases == 1
\* Largest number of probes of one invocation whose HEAD request ends in
\* anything but a 200 response, for documents of more than MaxFreeLinks links.
MaxFaulty == 1
\* Largest number of links of a document whose probes may all fail.
MaxFreeLinks == 2

\* ------------------------------------------------------- program constants
MAX_CONCURRENT == 5
\* status: null of a failed probe (no HTTP status is 0)
NULL == 0
\* error: undefined of a successful probe
NoError == ""

\* ------------------------------------------------------------ pure helpers
\* The character class [.,;:!?)] of the trailing-punctuation cleanup.
Punct == {".", ",", ";", ":", "!", "?", ")"}

\* url.replace(/[.,;:!?)]$/, ''): drops ONE trailing punctuation character.
CleanTrailing(url) ==
    IF Len(url) > 0 /\ url[Len(url)] \in Punct
    THEN SubSeq(url, 1, Len(url) - 1)
    ELSE url

\* A character of [^\s\)\"<>]; the tokens "A", "E", "L" and "M" begin with "<".
UrlChar(c) == c \notin {" ", "\n", "\r", "\t", ")", "\"", "<", ">", "A", "E", "L", "M"}

\* /^https?:\/\//i
HasScheme(s) == Len(s) > 0 /\ s[1] \in {"H", "S"}

RECURSIVE TrimLeft(_)
TrimLeft(s) == IF Len(s) > 0 /\ s[1] = " " THEN TrimLeft(Tail(s)) ELSE s

RECURSIVE TrimRight(_)
TrimRight(s) ==
    IF Len(s) > 0 /\ s[Len(s)] = " "
    THEN TrimRight(SubSeq(s, 1, Len(s) - 1))
    ELSE s

\* String.prototype.trim
Trim(s) == TrimRight(TrimLeft(s))

\* Position of the first c at or after p, or 0.
RECURSIVE IndexFrom(_, _, _)
IndexFrom(s, c, p) ==
    IF p > Len(s) THEN 0
    ELSE IF s[p] = c THEN p
    ELSE IndexFrom(s, c, p + 1)

\* Last position of the maximal run of URL characters that starts at p.
RECURSIVE UrlRunEnd(_, _)
UrlRunEnd(s, p) ==
    IF p + 1 <= Len(s) /\ UrlChar(s[p + 1]) THEN UrlRunEnd(s, p + 1) ELSE p

\* APPROACH 1: /<a\s+[^>]*href\s*=\s*(["'])(.*?)\1[^>]*>/gi, from position p.
RECURSIVE HrefLinks(_, _)
HrefLinks(content, p) ==
    IF p > Len(content) THEN << >>
    ELSE IF content[p] = "A" /\ p + 1 <= Len(content)
            /\ content[p + 1] \in {"\"", "'"}
    THEN LET q     == content[p + 1]
             close == IndexFrom(content, q, p + 2)
             gt    == IF close = 0 THEN 0 ELSE IndexFrom(content, ">", close + 1)
         IN  IF gt = 0 THEN HrefLinks(content, p + 1)
             ELSE LET inner == SubSeq(content, p + 2, close - 1)
                      href  == Trim(inner)
                  IN  (IF Len(inner) > 0 /\ HasScheme(href)
                       THEN << CleanTrailing(href) >>
                       ELSE << >>) \o HrefLinks(content, gt + 1)
    ELSE HrefLinks(content, p + 1)

\* APPROACH 2: /(https?:\/\/[^\s\)\"<>]+)/g, from position p.
RECURSIVE BareLinks(_, _)
BareLinks(content, p) ==
    IF p > Len(content) THEN << >>
    ELSE IF content[p] \in {"H", "S"} /\ p + 1 <= Len(content)
            /\ UrlChar(content[p + 1])
    THEN LET e == UrlRunEnd(content, p + 1)
         IN  << CleanTrailing(Trim(SubSeq(content, p, e))) >>
                 \o BareLinks(content, e + 1)
    ELSE BareLinks(content, p + 1)

\* allLinks.filter(first occurrence)
RECURSIVE RemoveDuplicates(_, _)
RemoveDuplicates(all, seen) ==
    IF all = << >> THEN << >>
    ELSE IF Head(all) \in seen THEN RemoveDuplicates(Tail(all), seen)
    ELSE << Head(all) >> \o RemoveDuplicates(Tail(all), seen \cup {Head(all)})

extractLinks(content) ==
    RemoveDuplicates(HrefLinks(content, 1) \o BareLinks(content, 1), {})

\* ---------------------------------------- documentParser.ts: pure helpers
\* Further lexemes of document text, one token each:
\*   "W" www.   "E" </a>   "L" <link href=   "M" <meta content=
\* "A" is an anchor opener whose first attribute is href.
Quotes == {"\"", "'"}
\* \s
Space == {" ", "\n", "\r", "\t"}
\* Tokens that spell a tag opener or closer; each begins with "<".
TagTokens == {"A", "E", "L", "M"}
\* Tokens that contain the character ">".
GtTokens == {">", "E"}

\* Number of characters a token spells.
WidthOf(c) ==
    CASE c = "H" -> 7
      [] c = "S" -> 8
      [] c = "W" -> 4
      [] c = "A" -> 8
      [] c = "E" -> 4
      [] c = "L" -> 11
      [] c = "M" -> 14
      [] OTHER   -> 1

\* string.length
RECURSIVE CharLen(_)
CharLen(s) == IF s = << >> THEN 0 ELSE WidthOf(Head(s)) + CharLen(Tail(s))

\* The characters of a tag token that precede its first blank or ">".
PartialOf(c) ==
    CASE c = "A" -> << "<a" >>
      [] c = "E" -> << "</a" >>
      [] c = "L" -> << "<link" >>
      [] c = "M" -> << "<meta" >>
      [] OTHER   -> << >>

RECURSIVE TrimWsLeft(_)
TrimWsLeft(s) == IF Len(s) > 0 /\ s[1] \in Space THEN TrimWsLeft(Tail(s)) ELSE s

RECURSIVE TrimWsRight(_)
TrimWsRight(s) ==
    IF Len(s) > 0 /\ s[Len(s)] \in Space
    THEN TrimWsRight(SubSeq(s, 1, Len(s) - 1))
    ELSE s

\* String.prototype.trim over blanks and line breaks
TrimWs(s) == TrimWsRight(TrimWsLeft(s))

\* Position of the first token of set cs at or after p, or 0.
RECURSIVE FirstIn(_, _, _)
FirstIn(s, cs, p) ==
    IF p > Len(s) THEN 0
    ELSE IF s[p] \in cs THEN p
    ELSE FirstIn(s, cs, p + 1)

\* ------------------------------------------------------------ pure helpers
\* [\r\n]
LineBreaks == {"\n", "\r"}

\* Least element of a non-empty set of integers.
Least(S) == CHOOSE x \in S : \A y \in S : x <= y

\* First position at or after p whose character is not in cs; Len(s) + 1 if
\* there is none.
SkipAll(s, cs, p) ==
    CHOOSE q \in p..(Len(s) + 1) :
        /\ q > Len(s) \/ s[q] \notin cs
        /\ \A r \in p..(q - 1) : s[r] \in cs

\* First position at or after p whose character is in cs; Len(s) + 1 if
\* there is none.
FindAny(s, cs, p) ==
    CHOOSE q \in p..(Len(s) + 1) :
        /\ q > Len(s) \/ s[q] \in cs
        /\ \A r \in p..(q - 1) : s[r] \notin cs

\* The class [,.!?;:'")\]] of the final cleanup.
DocPunct == {",", ".", "!", "?", ";", ":", "'", "\"", ")", "]"}

RECURSIVE StripTrailing(_)
StripTrailing(url) ==
    IF Len(url) > 0 /\ url[Len(url)] \in DocPunct
    THEN StripTrailing(SubSeq(url, 1, Len(url) - 1))
    ELSE url

\* url.replace(/[,.!?;:'")\]]+$/, '').trim()
CleanDocUrl(url) == TrimWs(StripTrailing(url))

\* href.match(/^(https?:\/\/|www\.)/i): the link pushed for href, if any;
\* a www. href gets http:// prepended.
SchemeTarget(href) ==
    IF href = << >> THEN << >>
    ELSE IF href[1] \in {"H", "S"} THEN << href >>
    ELSE IF href[1] = "W" THEN << << "H" >> \o href >>
    ELSE << >>

\* The same, or a domain-relative href: starts with "/" but not with "//".
HrefTarget(href) ==
    IF SchemeTarget(href) # << >> THEN SchemeTarget(href)
    ELSE IF Len(href) > 0 /\ href[1] = "/" /\ ~(Len(href) > 1 /\ href[2] = "/")
    THEN << href >>
    ELSE << >>

\* A character of [^\s()<>].
DocUrlChar(c) == c \notin Space \cup {"(", ")", ">"} \cup TagTokens

\* Last position of the maximal run of [^\s()<>] that starts after p (p if
\* the run is empty).
RECURSIVE DocRunEnd(_, _)
DocRunEnd(s, p) ==
    IF p + 1 <= Len(s) /\ DocUrlChar(s[p + 1]) THEN DocRunEnd(s, p + 1) ELSE p

\* (?:\([^\s()<>]+\)|([^\s()<>]+))* from after position e: the last position
\* the repetition reaches.
RECURSIVE DocGroupsEnd(_, _)
DocGroupsEnd(s, e) ==
    IF e + 1 <= Len(s) /\ s[e + 1] = "("
          /\ DocRunEnd(s, e + 1) > e + 1
          /\ DocRunEnd(s, e + 1) + 1 <= Len(s)
          /\ s[DocRunEnd(s, e + 1) + 1] = ")"
    THEN DocGroupsEnd(s, DocRunEnd(s, e + 1) + 1)
    ELSE IF DocRunEnd(s, e) > e THEN DocGroupsEnd(s, DocRunEnd(s, e))
    ELSE e

\* End of the match of [^\s()<>]+(?:\([^\s()<>]+\)|([^\s()<>]+))+ after the
\* prefix token at p, or 0: the run gives its last character to the group
\* when no parenthesised group follows it, so it then needs two characters.
DocUrlEnd(s, p) ==
    LET r == DocRunEnd(s, p)
        g == DocGroupsEnd(s, r)
    IN  IF r = p THEN 0
        ELSE IF g > r THEN g
        ELSE IF CharLen(SubSeq(s, p + 1, r)) >= 2 THEN r
        ELSE 0

\* /(prefix[^\s()<>]+(?:\([^\s()<>]+\)|([^\s()<>]+))+)/gi from position p:
\* the matches, for the prefix tokens of set pre.
RECURSIVE UrlMatches(_, _, _)
UrlMatches(s, pre, p) ==
    IF p > Len(s) THEN << >>
    ELSE IF s[p] \in pre /\ DocUrlEnd(s, p) # 0
    THEN << SubSeq(s, p, DocUrlEnd(s, p)) >> \o UrlMatches(s, pre, DocUrlEnd(s, p) + 1)
    ELSE UrlMatches(s, pre, p + 1)

\* The run of [^\s>] (quotes excluded too when noQuotes) that starts at p: a
\* tag token ends it and contributes the characters before its blank or ">".
RECURSIVE AttrRun(_, _, _)
AttrRun(s, p, noQuotes) ==
    IF p > Len(s) \/ s[p] \in Space \/ s[p] = ">" \/ (noQuotes /\ s[p] \in Quotes)
    THEN [value |-> << >>, stop |-> p]
    ELSE IF s[p] \in TagTokens THEN [value |-> PartialOf(s[p]), stop |-> p]
    ELSE LET rest == AttrRun(s, p + 1, noQuotes)
         IN  [value |-> << s[p] >> \o rest.value, stop |-> rest.stop]

\* APPROACH 1 of extractLinksFromText, from position p:
\* /<a\s+(?:[^>]*?\s+)?href\s*=\s*(["'])(.*?)\1.*?>.*?<\/a>/gi
RECURSIVE TextAnchors(_, _)
TextAnchors(text, p) ==
    IF p > Len(text) THEN << >>
    ELSE IF text[p] = "A" /\ p + 1 <= Len(text) /\ text[p + 1] \in Quotes
    THEN LET q     == text[p + 1]
             close == FirstIn(text, {q, "\n"}, p + 2)
             gt    == IF close # 0 /\ text[close] = q
                      THEN FirstIn(text, GtTokens \cup {"\n"}, close + 1) ELSE 0
             end   == IF gt # 0 /\ text[gt] # "\n"
                      THEN FirstIn(text, {"E", "\n"}, gt + 1) ELSE 0
         IN  IF end # 0 /\ text[end] = "E"
             THEN (IF close > p + 2
                   THEN HrefTarget(TrimWs(SubSeq(text, p + 2, close - 1)))
                   ELSE << >>) \o TextAnchors(text, end + 1)
             ELSE TextAnchors(text, p + 1)
    ELSE TextAnchors(text, p + 1)

\* if (href && href.length > 1) of APPROACH 2
LongHrefTarget(href) == IF CharLen(href) > 1 THEN HrefTarget(href) ELSE << >>

\* APPROACH 2, from position p:
\* /<a\s+[^>]*?href\s*=\s*(?:["']([^"']*)["']|([^\s>]*))[^>]*?>/gi
RECURSIVE TextHrefs(_, _)
TextHrefs(text, p) ==
    IF p > Len(text) THEN << >>
    ELSE IF text[p] = "A"
    THEN LET quoted == p + 1 <= Len(text) /\ text[p + 1] \in Quotes
             close  == IF quoted THEN FirstIn(text, Quotes, p + 2) ELSE 0
             gtQ    == IF close # 0 THEN FirstIn(text, GtTokens, close + 1) ELSE 0
             run    == AttrRun(text, p + 1, FALSE)
             gtU    == FirstIn(text, GtTokens, run.stop)
         IN  IF gtQ # 0
             THEN LongHrefTarget(TrimWs(SubSeq(text, p + 2, close - 1)))
                      \o TextHrefs(text, gtQ + 1)
             ELSE IF gtU # 0
             THEN LongHrefTarget(TrimWs(run.value)) \o TextHrefs(text, gtU + 1)
             ELSE TextHrefs(text, p + 1)
    ELSE TextHrefs(text, p + 1)

\* APPROACH 3, from position p: /href\s*=\s*(["'])(.*?)\1/gi
RECURSIVE StandaloneHrefs(_, _)
StandaloneHrefs(text, p) ==
    IF p > Len(text) THEN << >>
    ELSE IF text[p] \in {"A", "L"} /\ p + 1 <= Len(text) /\ text[p + 1] \in Quotes
    THEN LET q     == text[p + 1]
             close == FirstIn(text, {q, "\n"}, p + 2)
         IN  IF close # 0 /\ text[close] = q
             THEN (IF close > p + 2
                   THEN HrefTarget(TrimWs(SubSeq(text, p + 2, close - 1)))
                   ELSE << >>) \o StandaloneHrefs(text, close + 1)
             ELSE StandaloneHrefs(text, p + 1)
    ELSE StandaloneHrefs(text, p + 1)

\* APPROACH 5: urls.push(`http://${wwwMatch[0]}`)
WithHttp(ms) == [k \in 1..Len(ms) |-> << "H" >> \o ms[k]]

\* urls.map(cleanup)
CleanAll(urls) == [k \in 1..Len(urls) |-> CleanDocUrl(urls[k])]

\* url.length > 0 of the duplicate filter
NonEmpty(url) == url # << >>

\* extractLinksFromText: five approaches, cleanup, then first occurrences.
extractLinksFromText(text) ==
    RemoveDuplicates(
        SelectSeq(CleanAll(TextAnchors(text, 1) \o TextHrefs(text, 1)
                               \o StandaloneHrefs(text, 1)
                               \o UrlMatches(text, {"H", "S"}, 1)
                               \o WithHttp(UrlMatches(text, {"W"}, 1))),
                  NonEmpty),
        {})

\* Pattern 1 of parseHtmlForLinks, from position p:
\* /<a\s+[^>]*?href\s*=\s*(["'])(.*?)\1[^>]*?>[\s\S]*?<\/a>/gi
RECURSIVE HtmlAnchors(_, _)
HtmlAnchors(html, p) ==
    IF p > Len(html) THEN << >>
    ELSE IF html[p] = "A" /\ p + 1 <= Len(html) /\ html[p + 1] \in Quotes
    THEN LET q     == html[p + 1]
             close == FirstIn(html, {q, "\n"}, p + 2)
             gt    == IF close # 0 /\ html[close] = q
                      THEN FirstIn(html, GtTokens, close + 1) ELSE 0
             end   == IF gt # 0 THEN FirstIn(html, {"E"}, gt + 1) ELSE 0
         IN  IF end # 0
             THEN (IF close > p + 2
                   THEN HrefTarget(TrimWs(SubSeq(html, p + 2, close - 1)))
                   ELSE << >>) \o HtmlAnchors(html, end + 1)
             ELSE HtmlAnchors(html, p + 1)
    ELSE HtmlAnchors(html, p + 1)

\* /<link\s+[^>]*?href\s*=\s*(["'])(.*?)\1[^>]*?>/gi, from position p.
RECURSIVE LinkTags(_, _)
LinkTags(html, p) ==
    IF p > Len(html) THEN << >>
    ELSE IF html[p] = "L" /\ p + 1 <= Len(html) /\ html[p + 1] \in Quotes
    THEN LET q     == html[p + 1]
             close == FirstIn(html, {q, "\n"}, p + 2)
             gt    == IF close # 0 /\ html[close] = q
                      THEN FirstIn(html, GtTokens, close + 1) ELSE 0
         IN  IF gt # 0
             THEN (IF close > p + 2
                   THEN SchemeTarget(TrimWs(SubSeq(html, p + 2, close - 1)))
                   ELSE << >>) \o LinkTags(html, gt + 1)
             ELSE LinkTags(html, p + 1)
    ELSE LinkTags(html, p + 1)

\* Pattern 2, from position p: /<a\s+[^>]*?href\s*=\s*([^\s"'>]+)[^>]*?>/gi
RECURSIVE UnquotedHrefs(_, _)
UnquotedHrefs(html, p) ==
    IF p > Len(html) THEN << >>
    ELSE IF html[p] = "A"
    THEN LET run == AttrRun(html, p + 1, TRUE)
             gt  == FirstIn(html, GtTokens, run.stop)
         IN  IF run.value # << >> /\ gt # 0
             THEN HrefTarget(TrimWs(run.value)) \o UnquotedHrefs(html, gt + 1)
             ELSE UnquotedHrefs(html, p + 1)
    ELSE UnquotedHrefs(html, p + 1)

\* /<meta\s+[^>]*?(?:content|property|og:url)\s*=\s*(["'])(https?:\/\/.*?)\1[^>]*?>/gi
RECURSIVE MetaLinks(_, _)
MetaLinks(html, p) ==
    IF p > Len(html) THEN << >>
    ELSE IF html[p] = "M" /\ p + 2 <= Len(html) /\ html[p + 1] \in Quotes
            /\ html[p + 2] \in {"H", "S"}
    THEN LET q     == html[p + 1]
             close == FirstIn(html, {q, "\n"}, p + 3)
             gt    == IF close # 0 /\ html[close] = q
                      THEN FirstIn(html, GtTokens, close + 1) ELSE 0
         IN  IF gt # 0
             THEN << TrimWs(SubSeq(html, p + 2, close - 1)) >> \o MetaLinks(html, gt + 1)
             ELSE MetaLinks(html, p + 1)
    ELSE MetaLinks(html, p + 1)

\* parseHtmlForLinks: a link is pushed unless uniqueUrls already holds the
\* string as found; the cleanup runs on the list afterwards.
parseHtmlForLinks(html) ==
    CleanAll(RemoveDuplicates(
        HtmlAnchors(html, 1) \o LinkTags(html, 1) \o UnquotedHrefs(html, 1)
            \o UrlMatches(html, {"H", "S"}, 1) \o MetaLinks(html, 1),
        {}))

\* ------------------------------------------------------------------ inputs
\* The k-th generated URL: http:// followed by k letters.
NthUrl(k) == << "H" >> \o [j \in 1..k |-> "a"]

RECURSIVE JoinWords(_)
JoinWords(ws) ==
    IF ws = << >> THEN << >>
    ELSE IF Len(ws) = 1 THEN ws[1]
    ELSE ws[1] \o << " " >> \o JoinWords(Tail(ws))

\* A document of n distinct bare URLs separated by blanks.
ManyLinks(n) == JoinWords([k \in 1..n |-> NthUrl(k)])

\* Phrases of the short documents: bare URLs with trailing punctuation, the
\* same URL written with different trailing punctuation, anchors with
\* double- and single-quoted href, plain text.
Phrases ==
    { << "H", "a", ".", "." >>,
      << "H", "a", ".", ".", " ", "H", "a", "." >>,
      << "H", "a", ".", " ", "H", "a" >>,
      << "S", "b", "!" >>,
      << "A", "\"", "H", "a", "\"", ">", " ", "H", "a", "." >>,
      << "A", "'", "H", "a", ".", "'", ">" >>,
      << "x", "." >> }

Contents ==
    { ManyLinks(n) : n \in 0..MaxUrls }
        \cup { JoinWords(ws) : ws \in UNION { [1..m -> Phrases] : m \in 0..MaxPhrases } }

\* HTTP statuses a server may answer with.
Statuses == {200, 301, 403, 404, 405}

\* Failure descriptions of a rejected fetch (error.message).
AbortMessage == "The user aborted a request."
NetworkMessage == "request failed"

\* ------------------------------------------------------------------- state
VARIABLES
    content,     \* the argument of checkLinks
    links,       \* const links = extractLinks(content)
    pc,          \* position of checkLinks: start, loop, await, done, failed
    i,           \* the loop variable of checkLinks
    probe,       \* probe[k]: the call checkLinkStatus(links[k])
    results,     \* const results: LinkStatus[]
    ret,         \* the LinkCheckResult returned
    batchSizes,  \* sizes of the batches started so far
    reordered    \* some probe settled before a probe listed ahead of it

\* parseDocument (server/lib/documentParser.ts)
VARIABLES
    calls,       \* calls[c]: the c-th invocation of parseDocument
    tmpdir,      \* the files of os.tmpdir()
    uuids,       \* how many identifiers uuidv4() has handed out
    log          \* log[c]: what the c-th invocation has done so far

\* POST /api/evaluate (server/routes.ts)
VARIABLES
    req,         \* req.body of the request being handled
    route        \* the handler: its position, locals, evaluator calls, response

\* extractTitleFromContent (client: comparative input form)
VARIABLES
    titleInput,  \* the text passed to extractTitleFromContent
    titleResult  \* what the call returned, once it has

\* extractLinks and extractLinksFromText on the same text
VARIABLES
    extraction  \* the text given to the link extractors and what each returned

\* POST /api/parse-document
VARIABLES
    uploads,  \* the requests to POST /api/parse-document
    uploadDir  \* the files multer has written to os.tmpdir() and nobody has removed

\* The comparative input form (comparative-input-form.tsx).
VARIABLES
    competingArticles,  \* useState competingArticles: the list the form renders
    primary,  \* useState primaryTitle, primaryContent, apiKey
    comparativeState,  \* the parent's ComparativeState: isLoading, result, error
    inflight,  \* requests the form started and is awaiting, each with the list its handler closed over
    lastOp  \* the handler that ran last

linkVars == << content, links, pc, i, probe, results, ret, batchSizes, reordered >>
parseVars == << calls, tmpdir, uuids, log >>
routeVars == << req, route >>
titleVars == << titleInput, titleResult >>
extractVars == << extraction >>
uploadVars == << uploads, uploadDir >>
formVars == << competingArticles, primary, comparativeState, inflight, lastOp >>
\* What the link checker never touches.
hostVars == << parseVars, routeVars, titleVars, extractVars, uploadVars, formVars >>
\* What parseDocument never touches.
parseHost == << linkVars, routeVars, titleVars, extractVars, uploadVars, formVars >>
\* What the route handler itself never touches.
routeHost == << parseVars, titleVars, extractVars, uploadVars, formVars >>
\* What extractTitleFromContent never touches.
titleHost == << linkVars, parseVars, routeVars, extractVars, uploadVars, formVars >>

\* No invocation of parseDocument.
ParseIdle ==
    /\ calls = << >>
    /\ tmpdir = {}
    /\ uuids = 0
    /\ log = << >>

\* No request to the route.
RouteIdle ==
    /\ req = << >>
    /\ route = << >>

\* No call of extractTitleFromContent.
TitleIdle ==
    /\ titleInput = << >>
    /\ titleResult = << >>

\* No call of the link extractors.
ExtractIdle == extraction = << >>

\* No request to the parse endpoint.
UploadIdle == uploads = << >> /\ uploadDir = {}

\* The comparative input form is not mounted.
FormIdle == competingArticles = << >> /\ primary = << >> /\ comparativeState = << >> /\ inflight = << >> /\ lastOp = << >>

vars == << linkVars, hostVars >>

Min(a, b) == IF a < b THEN a ELSE b

NoRequest == [ev |-> "none", status |-> NULL]
NoStatus == [url |-> << >>, status |-> NULL, ok |-> FALSE, error |-> NoError]
NoResult == [links |-> << >>, totalLinks |-> 0, brokenLinks |-> 0, workingLinks |-> 0]

\* checkLinkStatus(url) not yet called.
IdleProbe(url) ==
    [pc |-> "idle", url |-> url, cleanUrl |-> << >>, sent |-> << >>,
     head |-> NoRequest, get |-> NoRequest,
     headTimer |-> "none", getTimer |-> "none", out |-> NoStatus]

\* ------------------------------------------------------- checkLinkStatus
\* response.ok of the fetch Response: a status in 200..299.
ResponseOk(s) == s >= 200 /\ s < 300

\* Mutant: 405 is not accepted.
MutOkOfNo405(s) == ResponseOk(s) \/ s = 403

\* ok: response.ok || response.status === 403 || response.status === 405
OkOf(s) == ResponseOk(s) \/ s = 403 \/ s = 405

\* return { url: cleanUrl, status: response.status, ok: ... }
Success(p, s) ==
    [url |-> p.cleanUrl, status |-> s, ok |-> OkOf(s), error |-> NoError]

\* Mutant: the failure description is dropped.
MutFailureNoError(p, msg) ==
    [url |-> p.url, status |-> NULL, ok |-> FALSE, error |-> NoError]

\* catch (error): return { url, status: null, ok: false, error: message }
Failure(p, msg) ==
    [url |-> p.url, status |-> NULL, ok |-> FALSE, error |-> msg]

\* The call up to its first await: cleanup, timer, HEAD request issued.
StartProbe(p) ==
    [p EXCEPT !.pc = "head",
              !.cleanUrl = CleanTrailing(p.url),
              !.headTimer = "armed",
              !.head = [ev |-> "pending", status |-> NULL],
              !.sent = << "HEAD" >>]

\* Mutant: only 403 is retried.
MutNeedsGet403(s) == s = 403

\* if (response.status === 403 || response.status === 405)
NeedsGet(s) == s = 403 \/ s = 405

\* The HEAD response arrived with status s: retry with GET, or return.
AfterHeadResponse(p, s) ==
    IF NeedsGet(s)
    THEN [p EXCEPT !.head = [ev |-> "resp", status |-> s],
                   !.pc = "get",
                   !.getTimer = "armed",
                   !.get = [ev |-> "pending", status |-> NULL],
                   !.sent = Append(p.sent, "GET")]
    ELSE [p EXCEPT !.head = [ev |-> "resp", status |-> s],
                   !.pc = "done",
                   !.headTimer = "cleared",
                   !.out = Success(p, s)]

\* Mutant: the outer catch rethrows, the call's promise rejects.
MutCatchHeadRethrow(p, ev, msg) ==
    [p EXCEPT !.head = [ev |-> ev, status |-> NULL],
              !.pc = "rejected",
              !.headTimer = IF ev = "abort" THEN "fired" ELSE p.headTimer]

\* The HEAD fetch rejected (ev: "error" or "abort"): the outer catch.
CatchHead(p, ev, msg) ==
    [p EXCEPT !.head = [ev |-> ev, status |-> NULL],
              !.pc = "done",
              !.headTimer = IF ev = "abort" THEN "fired" ELSE p.headTimer,
              !.out = Failure(p, msg)]

\* The GET response arrived with status s: response = GET response.
AfterGetResponse(p, s) ==
    [p EXCEPT !.get = [ev |-> "resp", status |-> s],
              !.pc = "done",
              !.getTimer = "cleared",
              !.headTimer = "cleared",
              !.out = Success(p, s)]

\* The GET fetch rejected: catch (getError) keeps the HEAD response.
CatchGet(p, ev) ==
    [p EXCEPT !.get = [ev |-> ev, status |-> NULL],
              !.pc = "done",
              !.getTimer = "cleared",
              !.headTimer = "cleared",
              !.out = Success(p, p.head.status)]

\* Mutant: one AbortController shared by the calls of a batch.
MutAbortScopeBatch(k) ==
    { j \in 1..Len(probe) : (j - 1) \div MAX_CONCURRENT = (k - 1) \div MAX_CONCURRENT }

\* The calls whose request the timer of call k aborts: each call creates
\* its own AbortController(s).
AbortScope(k) == {k}

\* Whether the HEAD timer's controller is also the GET request's signal.
GetSharesHeadSignal == FALSE

\* ------------------------------------------------------------- checkLinks
\* Mutant: the slice is one element wider than the loop's stride.
MutBatchOfWider(from) ==
    { k \in 1..Len(links) : from < k /\ k <= from + MAX_CONCURRENT + 1 }

\* Indices of links.slice(i, i + MAX_CONCURRENT), 1-based.
BatchOf(from) ==
    { k \in 1..Len(links) : from < k /\ k <= from + MAX_CONCURRENT }

InFlight == { k \in 1..Len(probe) : probe[k].pc \in {"head", "get"} }

Faulty ==
    { k \in 1..Len(probe) :
        probe[k].head.ev \in {"error", "abort"}
            \/ (probe[k].head.ev = "resp" /\ probe[k].head.status # 200) }

\* One more HEAD request may end in something other than a 200 response:
\* always for a document of at most MaxFreeLinks links, else while fewer
\* than MaxFaulty probes have done so.
FaultAllowed ==
    \/ Len(links) <= MaxFreeLinks
    \/ Cardinality(Faulty) < MaxFaulty

\* Mutant: the await returns as soon as one promise has settled.
MutBatchSettledAny(from) ==
    \E k \in BatchOf(from) : probe[k].pc \in {"done", "rejected"}

\* Mutant: the await waits for the probes of every batch.
MutBatchSettledAll(from) == \A k \in 1..Len(probe) : probe[k].pc = "done"

\* await Promise.all(...): every promise fulfilled, or one rejected.
BatchSettled(from) ==
    \/ \A k \in BatchOf(from) : probe[k].pc = "done"
    \/ \E k \in BatchOf(from) : probe[k].pc = "rejected"

\* Mutant: the batch's values in reverse order.
MutBatchResultsReversed(from) ==
    [n \in 1..Cardinality(BatchOf(from)) |->
        probe[from + Cardinality(BatchOf(from)) + 1 - n].out]

\* The fulfilled values of Promise.all, in the order of the batch.
BatchResults(from) ==
    [n \in 1..Cardinality(BatchOf(from)) |-> probe[from + n].out]

\* results.push(...batchResults)
Collect(res, batchResults) == res \o batchResults

\* Mutant: the filter keeps the working links.
MutCountBrokenOk(res) == Cardinality({ k \in 1..Len(res) : res[k].ok })

\* results.filter(link => !link.ok).length
CountBroken(res) == Cardinality({ k \in 1..Len(res) : ~res[k].ok })

Summary(res) ==
    [links |-> res,
     totalLinks |-> Len(res),
     brokenLinks |-> CountBroken(res),
     workingLinks |-> Len(res) - CountBroken(res)]

\* A probe of the batch listed ahead of k is still in flight.
Overtakes(k) == \E j \in BatchOf(i) : j < k /\ probe[j].pc \in {"head", "get"}

Init ==
    /\ content \in Contents
    /\ links = << >>
    /\ pc = "start"
    /\ i = 0
    /\ probe = << >>
    /\ results = << >>
    /\ ret = NoResult
    /\ batchSizes = << >>
    /\ reordered = FALSE
    /\ ParseIdle
    /\ RouteIdle
    /\ TitleIdle
    /\ ExtractIdle
    /\ UploadIdle
    /\ FormIdle

\* const links = extractLinks(content); const results = []; i = 0
Start ==
    /\ pc = "start"
    /\ links' = extractLinks(content)
    /\ probe' = [k \in 1..Len(links') |-> IdleProbe(links'[k])]
    /\ pc' = "loop"
    /\ UNCHANGED << content, i, results, ret, batchSizes, reordered >>
    /\ UNCHANGED hostVars

\* i < links.length: batch.map(link => checkLinkStatus(link))
BatchStart ==
    /\ pc = "loop"
    /\ i < Len(links)
    /\ probe' = [k \in 1..Len(probe) |->
                    IF k \in BatchOf(i) THEN StartProbe(probe[k]) ELSE probe[k]]
    /\ batchSizes' = Append(batchSizes, Cardinality(BatchOf(i)))
    /\ pc' = "await"
    /\ UNCHANGED << content, links, i, results, ret, reordered >>
    /\ UNCHANGED hostVars

HeadRespond(k, s) ==
    /\ pc = "await"
    /\ probe[k].pc = "head"
    /\ s = 200 \/ FaultAllowed
    /\ probe' = [probe EXCEPT ![k] = AfterHeadResponse(probe[k], s)]
    /\ reordered' = (reordered \/ (~NeedsGet(s) /\ Overtakes(k)))
    /\ UNCHANGED << content, links, pc, i, results, ret, batchSizes >>
    /\ UNCHANGED hostVars

HeadNetworkError(k) ==
    /\ pc = "await"
    /\ probe[k].pc = "head"
    /\ FaultAllowed
    /\ probe' = [probe EXCEPT ![k] = CatchHead(probe[k], "error", NetworkMessage)]
    /\ reordered' = (reordered \/ Overtakes(k))
    /\ UNCHANGED << content, links, pc, i, results, ret, batchSizes >>
    /\ UNCHANGED hostVars

\* setTimeout(() => controller.abort(), 5000) fires during the HEAD request.
HeadTimeout(k) ==
    /\ pc = "await"
    /\ probe[k].pc = "head"
    /\ probe[k].headTimer = "armed"
    /\ FaultAllowed
    /\ probe' = [j \in 1..Len(probe) |->
                    IF j \in AbortScope(k) /\ probe[j].pc = "head"
                    THEN CatchHead(probe[j], "abort", AbortMessage)
                    ELSE probe[j]]
    /\ reordered' = (reordered \/ Overtakes(k))
    /\ UNCHANGED << content, links, pc, i, results, ret, batchSizes >>
    /\ UNCHANGED hostVars

\* The HEAD timer, not yet cleared, fires while the GET request is pending.
HeadTimerLate(k) ==
    /\ pc = "await"
    /\ probe[k].pc = "get"
    /\ probe[k].headTimer = "armed"
    /\ probe' = [probe EXCEPT ![k] =
                    IF GetSharesHeadSignal
                    THEN [CatchGet(probe[k], "abort") EXCEPT !.headTimer = "fired"]
                    ELSE [probe[k] EXCEPT !.headTimer = "fired"]]
    /\ UNCHANGED << content, links, pc, i, results, ret, batchSizes, reordered >>
    /\ UNCHANGED hostVars

GetRespond(k, s) ==
    /\ pc = "await"
    /\ probe[k].pc = "get"
    /\ probe' = [probe EXCEPT ![k] = AfterGetResponse(probe[k], s)]
    /\ reordered' = (reordered \/ Overtakes(k))
    /\ UNCHANGED << content, links, pc, i, results, ret, batchSizes >>
    /\ UNCHANGED hostVars

GetNetworkError(k) ==
    /\ pc = "await"
    /\ probe[k].pc = "get"
    /\ probe' = [probe EXCEPT ![k] = CatchGet(probe[k], "error")]
    /\ reordered' = (reordered \/ Overtakes(k))
    /\ UNCHANGED << content, links, pc, i, results, ret, batchSizes >>
    /\ UNCHANGED hostVars

\* setTimeout(() => getController.abort(), 5000) fires during the GET.
GetTimeout(k) ==
    /\ pc = "await"
    /\ probe[k].pc = "get"
    /\ probe[k].getTimer = "armed"
    /\ probe' = [j \in 1..Len(probe) |->
                    IF j \in AbortScope(k) /\ probe[j].pc = "get"
                    THEN CatchGet(probe[j], "abort")
                    ELSE probe[j]]
    /\ reordered' = (reordered \/ Overtakes(k))
    /\ UNCHANGED << content, links, pc, i, results, ret, batchSizes >>
    /\ UNCHANGED hostVars

\* Promise.all settles: push the batch's results in input order, i += 5;
\* a rejected promise makes checkLinks itself reject.
BatchEnd ==
    /\ pc = "await"
    /\ BatchSettled(i)
    /\ IF \E k \in BatchOf(i) : probe[k].pc = "rejected"
       THEN /\ pc' = "failed"
            /\ UNCHANGED << i, results >>
       ELSE /\ results' = Collect(results, BatchResults(i))
            /\ i' = i + MAX_CONCURRENT
            /\ pc' = "loop"
    /\ UNCHANGED << content, links, probe, ret, batchSizes, reordered >>
    /\ UNCHANGED hostVars

\* The loop ended: compute the summary and return.
Finish ==
    /\ pc = "loop"
    /\ i >= Len(links)
    /\ ret' = Summary(results)
    /\ pc' = "done"
    /\ UNCHANGED << content, links, i, probe, results, batchSizes, reordered >>
    /\ UNCHANGED hostVars

Next ==
    \/ Start
    \/ BatchStart
    \/ \E k \in 1..Len(probe) : \E s \in Statuses : HeadRespond(k, s)
    \/ \E k \in 1..Len(probe) : HeadNetworkError(k)
    \/ \E k \in 1..Len(probe) : HeadTimeout(k)
    \/ \E k \in 1..Len(probe) : HeadTimerLate(k)
    \/ \E k \in 1..Len(probe) : \E s \in Statuses : GetRespond(k, s)
    \/ \E k \in 1..Len(probe) : GetNetworkError(k)
    \/ \E k \in 1..Len(probe) : GetTimeout(k)
    \/ BatchEnd
    \/ Finish

Spec == Init /\ [][Next]_vars

\* ------------------------------------------------------------ properties
Probes == 1..Len(probe)
Settled(k) == probe[k].pc = "done"
Started(k) == probe[k].pc # "idle"
Running(k) == probe[k].pc \in {"head", "get"}
\* Number of the batch that holds the k-th extracted URL (batches of 5).
BatchNo(k) == (k - 1) \div 5
HeadFailed(k) == probe[k].head.ev \in {"error", "abort"}
GetFailed(k) == probe[k].get.ev \in {"error", "abort"}
Returned == pc = "done"

\* C1: within one invocation, no probe of a later batch has been started
\* while a probe of an earlier batch has not yet settled.
C1_BatchesSequential ==
    \A j \in Probes : \A k \in Probes :
        (BatchNo(j) < BatchNo(k) /\ Started(k)) => Settled(j)

\* A probe of the second batch is in flight while another one of that
\* batch has already settled.
C1_Witness ==
    \E j \in Probes : \E k \in Probes :
        /\ BatchNo(j) = 1 /\ BatchNo(k) = 1
        /\ Running(j) /\ Settled(k)

\* C2: at most 5 probes are in flight at any instant; the batches started
\* have sizes 5, ..., 5, n mod 5 (ceil(n/5) of them once checkLinks has
\* returned); checkLinks returns only after all n probes have settled.
C2_BatchBound ==
    /\ Cardinality({ k \in Probes : Running(k) }) <= 5
    /\ Len(batchSizes) <= (Len(links) + 4) \div 5
    /\ \A b \in 1..Len(batchSizes) :
        batchSizes[b] = IF 5 * b <= Len(links) THEN 5 ELSE Len(links) % 5
    /\ Returned =>
        /\ Len(batchSizes) = (Len(links) + 4) \div 5
        /\ \A k \in 1..Len(links) : Settled(k)
        /\ Len(probe) = Len(links)

\* checkLinks returned for 7 URLs after the batches 5, 2.
C2_Witness ==
    /\ Returned
    /\ Len(links) = 7
    /\ batchSizes = << 5, 2 >>

\* C3: whatever the order of completion, the i-th LinkStatus returned is
\* the one produced by the probe of the i-th extracted URL.
C3_InputOrder ==
    Returned =>
        /\ Len(ret.links) = Len(links)
        /\ \A k \in 1..Len(links) :
            /\ ret.links[k] = probe[k].out
            /\ ret.links[k].url \in {links[k], CleanTrailing(links[k])}

\* checkLinks returned after a probe settled ahead of one listed before it.
C3_Witness ==
    /\ Returned
    /\ reordered
    /\ Len(links) >= 2

\* C4 as stated: a failed or timed out HEAD or GET request gives
\* status = null, ok = false and a non-empty error.
C4_AnyRequestFailureIsNull ==
    \A k \in Probes :
        (Settled(k) /\ (HeadFailed(k) \/ GetFailed(k))) =>
            /\ probe[k].out.status = NULL
            /\ ~probe[k].out.ok
            /\ probe[k].out.error # NoError

\* C4 amended: a failed or timed out HEAD request gives status = null,
\* ok = false and a non-empty error; a failed or timed out GET retry keeps
\* the HEAD's status (403 or 405) with ok = true and no error.
C4_HeadFailureIsNull ==
    \A k \in Probes :
        Settled(k) =>
            /\ HeadFailed(k) =>
                /\ probe[k].out.status = NULL
                /\ ~probe[k].out.ok
                /\ probe[k].out.error # NoError
            /\ GetFailed(k) =>
                /\ probe[k].out.status = probe[k].head.status
                /\ probe[k].out.status \in {403, 405}
                /\ probe[k].out.ok
                /\ probe[k].out.error = NoError

\* A probe whose HEAD request timed out has settled.
C4_Witness ==
    \E k \in Probes :
        /\ Settled(k)
        /\ probe[k].head.ev = "abort"
        /\ probe[k].out.status = NULL

\* C5: checkLinks never fails, and the result it returns holds one
\* LinkStatus per extracted URL, in particular for the failed probes.
C5_NeverAborts ==
    /\ pc # "failed"
    /\ \A k \in Probes : probe[k].pc # "rejected"
    /\ Returned =>
        /\ ret.totalLinks = Len(links)
        /\ Len(ret.links) = Len(links)
        /\ \A k \in 1..Len(links) :
            ret.links[k].url \in {links[k], CleanTrailing(links[k])}

\* checkLinks returned although the HEAD request of a probe failed.
C5_Witness ==
    /\ Returned
    /\ Len(links) >= 2
    /\ \E k \in Probes : HeadFailed(k) /\ ret.links[k].status = NULL

\* The LinkStatus that the request log of probe k alone determines.
OwnStatus(k) ==
    LET p == probe[k]
    IN  IF p.head.ev = "error"
        THEN [url |-> links[k], status |-> NULL, ok |-> FALSE,
              error |-> NetworkMessage]
        ELSE IF p.head.ev = "abort"
        THEN [url |-> links[k], status |-> NULL, ok |-> FALSE,
              error |-> AbortMessage]
        ELSE LET final == IF p.get.ev = "resp" THEN p.get.status
                          ELSE p.head.status
             IN  [url |-> CleanTrailing(links[k]), status |-> final,
                  ok |-> (final \in 200..299 \/ final \in {403, 405}),
                  error |-> NoError]

\* A step taken while a batch is awaited changes the record of at most one
\* probe.
OneProbePerStep ==
    pc = "await" /\ pc' = "await" =>
        Cardinality({ k \in Probes : probe'[k] # probe[k] }) <= 1

\* C6 as stated: every probe that timed out (HEAD or GET) has ok = false.
C6_TimedOutIsBroken ==
    \A k \in Probes :
        (Settled(k) /\ (probe[k].head.ev = "abort" \/ probe[k].get.ev = "abort"))
            => ~probe[k].out.ok

\* C6 amended: a probe whose HEAD request timed out has ok = false (one
\* whose GET retry timed out keeps the HEAD's 403/405 and ok = true); every
\* settled probe carries the result of its own requests; the firing of a
\* timer changes no other probe.
C6_TimeoutIsLocal ==
    /\ [](\A k \in Probes :
            Settled(k) =>
                /\ probe[k].out = OwnStatus(k)
                /\ probe[k].head.ev = "abort" => ~probe[k].out.ok
                /\ probe[k].get.ev = "abort" => probe[k].out.ok)
    /\ [][OneProbePerStep]_vars

\* A probe's HEAD request timed out and a sibling of its batch settled with
\* the 200 of its own request.
C6_Witness ==
    \E j \in Probes : \E k \in Probes :
        /\ j # k /\ BatchNo(j) = BatchNo(k)
        /\ Settled(k) /\ probe[k].head.ev = "abort" /\ ~probe[k].out.ok
        /\ Settled(j) /\ probe[j].out.status = 200 /\ probe[j].out.ok

\* C7: the returned counts are totalLinks = length of links, brokenLinks =
\* number of entries with ok = false, workingLinks = totalLinks - brokenLinks.
C7_Counts ==
    Returned =>
        /\ ret.totalLinks = Len(ret.links)
        /\ ret.brokenLinks = Cardinality({ k \in 1..Len(ret.links) : ~ret.links[k].ok })
        /\ ret.workingLinks = ret.totalLinks - ret.brokenLinks
        /\ ret.brokenLinks + ret.workingLinks = ret.totalLinks

\* A result with both a broken and a working link.
C7_Witness ==
    /\ Returned
    /\ ret.brokenLinks >= 1
    /\ ret.workingLinks >= 1

\* C8 as stated: ok exactly when the final status is 2xx-3xx, 403 or 405.
C8_OkIff2xx3xx ==
    \A k \in Probes :
        (Settled(k) /\ probe[k].out.status # NULL) =>
            (probe[k].out.ok <=>
                (probe[k].out.status \in 200..399
                    \/ probe[k].out.status \in {403, 405}))

\* C8 amended: ok exactly when the final status is 2xx, 403 or 405; 403
\* gives ok = true, 404 gives ok = false, a final 3xx gives ok = false.
C8_OkIff2xx ==
    \A k \in Probes :
        (Settled(k) /\ probe[k].out.status # NULL) =>
            /\ probe[k].out.ok <=>
                (probe[k].out.status \in 200..299
                    \/ probe[k].out.status \in {403, 405})
            /\ probe[k].out.status = 403 => probe[k].out.ok
            /\ probe[k].out.status = 404 => ~probe[k].out.ok
            /\ probe[k].out.status \in 300..399 => ~probe[k].out.ok

\* A probe settled with the final status 405 and ok = true.
C8_Witness ==
    \E k \in Probes :
        /\ Settled(k)
        /\ probe[k].out.status = 405
        /\ probe[k].out.ok

\* The firing of the HEAD timer while the GET is pending leaves the GET
\* request and its timer as they were.
HeadTimerSparesGet ==
    \A k \in Probes :
        (/\ probe[k].pc = "get"
         /\ probe[k].headTimer = "armed"
         /\ probe'[k].headTimer = "fired")
            => /\ probe'[k].pc = "get"
               /\ probe'[k].get = probe[k].get
               /\ probe'[k].getTimer = probe[k].getTimer

\* C9: every probe sends HEAD first; it sends GET, once, exactly when the
\* HEAD response is 403 or 405; the GET runs under its own armed timer and
\* is not ended by the HEAD's timer; the status and ok reported after a GET
\* response are those of the GET's status.
C9_GetRetry ==
    /\ [](\A k \in Probes :
            /\ probe[k].sent \in {<< >>, << "HEAD" >>, << "HEAD", "GET" >>}
            /\ Started(k) => probe[k].sent # << >>
            /\ (probe[k].sent = << "HEAD", "GET" >>)
                  <=> (probe[k].head.ev = "resp" /\ probe[k].head.status \in {403, 405})
            /\ probe[k].get.ev = "pending" => probe[k].getTimer = "armed"
            /\ (Settled(k) /\ probe[k].get.ev = "resp") =>
                  /\ probe[k].out.status = probe[k].get.status
                  /\ probe[k].out.ok <=>
                        (probe[k].get.status \in 200..299
                            \/ probe[k].get.status \in {403, 405}))
    /\ [][HeadTimerSparesGet]_vars

\* A HEAD answered 403 was retried with a GET answered 404, and the probe
\* reports 404 and ok = false.
C9_Witness ==
    \E k \in Probes :
        /\ Settled(k)
        /\ probe[k].head.status = 403
        /\ probe[k].get.ev = "resp"
        /\ probe[k].get.status = 404
        /\ probe[k].out.status = 404
        /\ ~probe[k].out.ok

\* C10: the returned links hold no two entries with the same url.
C10_NoDuplicateUrls ==
    Returned =>
        \A j \in 1..Len(ret.links) : \A k \in 1..Len(ret.links) :
            j # k => ret.links[j].url # ret.links[k].url

\* ---------------------------------------------------------------- liveness
\* checkLinks(content) has run up to its loop: the links are extracted, no
\* probe has been started.
InitLive ==
    /\ content \in Contents
    /\ links = extractLinks(content)
    /\ pc = "loop"
    /\ i = 0
    /\ probe = [k \in 1..Len(links) |-> IdleProbe(links[k])]
    /\ results = << >>
    /\ ret = NoResult
    /\ batchSizes = << >>
    /\ reordered = FALSE
    /\ ParseIdle
    /\ RouteIdle
    /\ TitleIdle
    /\ ExtractIdle
    /\ UploadIdle
    /\ FormIdle

\* A step of the loop: the event loop runs a continuation that is ready.
ProgramStep == BatchStart \/ BatchEnd \/ Finish

\* The outstanding request of probe k responds, fails, or is aborted by its
\* 5-second timer.
RequestSettles(k) ==
    /\ k \in 1..Len(probe)
    /\ \/ \E s \in Statuses : HeadRespond(k, s)
       \/ HeadNetworkError(k)
       \/ HeadTimeout(k)
       \/ \E s \in Statuses : GetRespond(k, s)
       \/ GetNetworkError(k)
       \/ GetTimeout(k)

NextLive ==
    \/ ProgramStep
    \/ \E k \in 1..MaxUrls : RequestSettles(k)
    \/ \E k \in 1..Len(probe) : HeadTimerLate(k)

\* checkLinks under the assumption that every outstanding request eventually
\* settles and every ready continuation eventually runs.
SpecLive ==
    /\ InitLive
    /\ [][NextLive]_vars
    /\ WF_vars(ProgramStep)
    /\ \A k \in 1..MaxUrls : WF_vars(RequestSettles(k))

\* Number of iterations of the loop over batches for n URLs: ceil(n / 5).
Iterations(n) == (n + 4) \div 5

\* C27: if every outstanding request eventually responds, fails or is timed
\* out, checkLinks eventually returns; by then every probe has settled and
\* the loop has run ceil(n / 5) times for n extracted URLs; for n = 0 it
\* returns empty links and counts 0 without issuing a probe.
C27_CheckLinksReturns ==
    /\ <>(pc = "done")
    /\ [](pc = "done" =>
             /\ Len(batchSizes) = Iterations(Len(links))
             /\ \A k \in 1..Len(probe) : probe[k].pc = "done"
             /\ Len(links) = 0 => (ret = NoResult /\ probe = << >>))

\* checkLinks returned after two iterations over seven URLs.
C27_Witness ==
    /\ pc = "done"
    /\ Len(links) = 7
    /\ Len(batchSizes) = 2
    /\ ret.totalLinks = 7

\* C24: for every probed URL, on success and on failure alike, the url of
\* the LinkStatus is the cleaned URL string the probe requested.
C24_ReportsRequestedUrl ==
    \A k \in 1..Len(probe) :
        probe[k].pc = "done" => probe[k].out.url = probe[k].cleanUrl

\* ======================================================================
\* parseDocument (server/lib/documentParser.ts)
\*
\* A buffer is a sequence of bytes, one token each: a printable ASCII byte is
\* the character itself, "\t" and "\n" are control bytes, "DEL" is 0x7F,
\* "C3" is the lead byte 0xC3 and "A9" the continuation byte 0xA9.  Decoded
\* text holds "U+E9" for the character C3 A9 spells and "U+FFFD" for the
\* replacement character of a byte sequence that is not UTF-8.
\* ======================================================================

\* ------------------------------------------------------------------ bounds
\* Largest number of concurrent invocations of parseDocument.
MaxCalls == 2
\* Lengths of the printable part of a buffer lie within MaxPad of 0 and of
\* the excerpt limit.
MaxPad == 1
\* Largest number of phrases in a generated HTML or plain-text document.
MaxDocPhrases == 2

\* ------------------------------------------------------- program constants
\* text.substring(0, 1000)
NoteLimit == 1000
\* title: null
NullTitle == << "null" >>
PdfNote == "Note: PDF parsing failed, limited text extracted. "
DocxNote == "Note: DOCX parsing failed, limited text extracted. "
PdfFailedTitle == "PDF Parsing Failed"
DocxFailedTitle == "DOCX Parsing Failed"
Placeholder == "Unable to extract text content"
Ellipsis == << ".", ".", "." >>

\* ------------------------------------------------------------ pure helpers
\* The character the byte at position j contributes to buffer.toString('utf8');
\* "" for a continuation byte its lead byte has consumed.
Utf8Char(b, j) ==
    IF b[j] = "C3"
    THEN IF j < Len(b) /\ b[j + 1] = "A9" THEN "U+E9" ELSE "U+FFFD"
    ELSE IF b[j] = "A9"
    THEN IF j > 1 /\ b[j - 1] = "C3" THEN "" ELSE "U+FFFD"
    ELSE b[j]

IsChar(c) == c # ""

\* buffer.toString('utf8')
Utf8Decode(b) == SelectSeq([j \in 1..Len(b) |-> Utf8Char(b, j)], IsChar)

\* A character outside [\x00-\x1F\x7F-\xFF].
Kept(c) == c \notin {"\t", "\n", "DEL", "U+E9"}

\* buffer.toString('utf8').replace(/[\x00-\x1F\x7F-\xFF]/g, '') || placeholder
FallbackText(buffer) ==
    IF SelectSeq(Utf8Decode(buffer), Kept) = << >>
    THEN << Placeholder >>
    ELSE SelectSeq(Utf8Decode(buffer), Kept)

MutExcerptWhole(text) == text

\* text.substring(0, 1000)
Excerpt(text) == SubSeq(text, 1, Min(Len(text), NoteLimit))

\* The ParsedDocument of the outer catch block.
Degraded(kind, buffer) ==
    [text  |-> << IF kind = "pdf" THEN PdfNote ELSE DocxNote >>
                   \o Excerpt(FallbackText(buffer)) \o Ellipsis,
     title |-> << IF kind = "pdf" THEN PdfFailedTitle ELSE DocxFailedTitle >>,
     links |-> << >>]

\* text.split('\n').filter(line => line.trim().length > 0): lines[0].trim(),
\* or null when no line is left.
FirstLineTitle(text) ==
    LET t   == TrimWsLeft(text)
        eol == FirstIn(t, {"\n"}, 1)
    IN  IF t = << >> THEN NullTitle
        ELSE TrimWsRight(SubSeq(t, 1, IF eol = 0 THEN Len(t) ELSE eol - 1))

\* The ParsedDocument of decoded or plain text.
TextDocument(text) ==
    [text |-> text, title |-> FirstLineTitle(text), links |-> extractLinksFromText(text)]

\* ---------------------------------------------- title of an HTML document
\* Tokens of HTML documents that carry a title: "<title>", "</title>",
\* "<h1>" and "</h1>" spell themselves, OgOpen spells
\* <meta property="og:title" content=  and is followed by the quoted value.
\* Letters of these documents are lower case, capital letters being tokens.
OgOpen == "<meta property=og:title content="
\* Tokens that spell a whole tag.
WholeTags == {"E", "<title>", "</title>", "<h1>", "</h1>"}
\* Tokens that begin with "<" and with "</".
LtTokens == TagTokens \cup WholeTags \cup {OgOpen}
CloseTokens == {"E", "</title>", "</h1>"}
\* Tokens that contain ">".
HtmlGt == GtTokens \cup WholeTags

\* word is written at position p of s.
Spelled(s, p, word) ==
    /\ p >= 1
    /\ p + Len(word) - 1 <= Len(s)
    /\ \A j \in 1..Len(word) : s[p + j - 1] = word[j]

\* s.replace(pat, rep) with the flag g, pat a literal.
RECURSIVE ReplaceAll(_, _, _)
ReplaceAll(s, pat, rep) ==
    IF s = << >> THEN << >>
    ELSE IF Spelled(s, 1, pat)
    THEN rep \o ReplaceAll(SubSeq(s, Len(pat) + 1, Len(s)), pat, rep)
    ELSE << s[1] >> \o ReplaceAll(Tail(s), pat, rep)

\* .replace(/\s+/g, ' ')
RECURSIVE CollapseWs(_)
CollapseWs(s) ==
    IF s = << >> THEN << >>
    ELSE IF s[1] \in Space
    THEN << " " >> \o CollapseWs(SubSeq(s, SkipAll(s, Space, 1), Len(s)))
    ELSE << s[1] >> \o CollapseWs(Tail(s))

\* .replace(/&amp;/g, '&') ... .replace(/&#39;/g, "'"), in this order
DecodeEntities(s) ==
    ReplaceAll(
        ReplaceAll(
            ReplaceAll(
                ReplaceAll(
                    ReplaceAll(s, << "&", "a", "m", "p", ";" >>, << "&" >>),
                    << "&", "l", "t", ";" >>, << "<" >>),
                << "&", "g", "t", ";" >>, << ">" >>),
            << "&", "q", "u", "o", "t", ";" >>, << "\"" >>),
        << "&", "#", "3", "9", ";" >>, << "'" >>)

\* .replace(/<[^>]*>/g, '')
RECURSIVE StripTags(_)
StripTags(s) ==
    IF s = << >> THEN << >>
    ELSE IF s[1] \in WholeTags THEN StripTags(Tail(s))
    ELSE IF s[1] \in LtTokens \cup {"<"} /\ FindAny(s, HtmlGt, 2) <= Len(s)
    THEN StripTags(SubSeq(s, FindAny(s, HtmlGt, 2) + 1, Len(s)))
    ELSE << s[1] >> \o StripTags(Tail(s))

\* .replace(/<[^>]*>/g, '').trim().replace(/\s+/g, ' ')
CleanHtmlText(s) == CollapseWs(TrimWs(StripTags(s)))

\* match[1] of /<tag[^>]*>([\s\S]*?)<\/tag>/i when it matched and is not
\* empty, else null: what lies between the first opening tag and the first
\* closing tag after it.
ElementText(html, open, close) ==
    LET p == FindAny(html, {open}, 1)
        c == FindAny(html, {close}, p + 1)
    IN  IF p <= Len(html) /\ c <= Len(html) /\ c > p + 1
        THEN SubSeq(html, p + 1, c - 1)
        ELSE NullTitle

\* htmlTitle of lines 388-399
TitleTagTitle(html) ==
    IF ElementText(html, "<title>", "</title>") = NullTitle THEN NullTitle
    ELSE DecodeEntities(CollapseWs(TrimWs(ElementText(html, "<title>", "</title>"))))

\* The value the og:title pattern captures from the tag at p: up to the first
\* quote on the same line, a ">" following; null when it does not match or
\* captures nothing.
OgValueAt(html, p) ==
    LET q == FindAny(html, Quotes \cup LineBreaks, p + 2)
    IN  IF /\ html[p] = OgOpen
           /\ p + 1 <= Len(html) /\ html[p + 1] \in Quotes
           /\ q <= Len(html) /\ html[q] \in Quotes
           /\ FindAny(html, HtmlGt, q + 1) <= Len(html)
           /\ q > p + 2
        THEN SubSeq(html, p + 2, q - 1)
        ELSE NullTitle

\* The og:title pattern matches at p, with a value or with none.
OgMatchesAt(html, p) ==
    \/ OgValueAt(html, p) # NullTitle
    \/ /\ html[p] = OgOpen
       /\ p + 2 <= Len(html) /\ html[p + 1] \in Quotes /\ html[p + 2] \in Quotes
       /\ FindAny(html, HtmlGt, p + 3) <= Len(html)

\* ogTitleMatch[1].trim() of lines 407-409, or null
OgTitle(html) ==
    LET ps == { p \in 1..Len(html) : OgMatchesAt(html, p) }
    IN  IF ps = {} \/ OgValueAt(html, Least(ps)) = NullTitle
        THEN NullTitle
        ELSE TrimWs(OgValueAt(html, Least(ps)))

MetaWord == << "m", "e", "t", "a" >>
TitleWord == << "t", "i", "t", "l", "e" >>
DescriptionWord == << "d", "e", "s", "c", "r", "i", "p", "t", "i", "o", "n" >>
PageWord == << "p", "a", "g", "e" >>
PostWord == << "p", "o", "s", "t" >>

\* Position after /word\s+next/ written at p, or 0.
TwoWords(s, p, word, next) ==
    LET w == p + Len(word)
        a == SkipAll(s, Space, w)
    IN  IF Spelled(s, p, word) /\ a > w /\ Spelled(s, a, next)
        THEN a + Len(next) ELSE 0

\* Position after /(?:meta|page|post)\s+title/ written at p, or 0.
TitleLabelEnd(s, p) ==
    IF TwoWords(s, p, MetaWord, TitleWord) # 0 THEN TwoWords(s, p, MetaWord, TitleWord)
    ELSE IF TwoWords(s, p, PageWord, TitleWord) # 0 THEN TwoWords(s, p, PageWord, TitleWord)
    ELSE TwoWords(s, p, PostWord, TitleWord)

\* Start of the capture after /\s*:?\s*/ from position a.
AfterColon(s, a) ==
    LET b == SkipAll(s, Space, a)
    IN  IF b <= Len(s) /\ s[b] = ":" THEN SkipAll(s, Space, b + 1) ELSE b

\* /(?:[\r\n]|<\/|(?:meta|page)\s+description|$)/ matches at position t.
MetaCaptureEnds(s, t) ==
    \/ t > Len(s)
    \/ s[t] \in LineBreaks \cup CloseTokens
    \/ TwoWords(s, t, MetaWord, DescriptionWord) # 0
    \/ TwoWords(s, t, PageWord, DescriptionWord) # 0

\* metaTitleMatch[1] of lines 417-420 when it matched and is not empty,
\* cleaned as in lines 421-424; null otherwise.
MetaPatternTitle(html) ==
    LET ps == { p \in 1..Len(html) : TitleLabelEnd(html, p) # 0 }
        c  == AfterColon(html, TitleLabelEnd(html, Least(ps)))
        t  == CHOOSE t \in c..(Len(html) + 1) :
                  /\ MetaCaptureEnds(html, t)
                  /\ \A r \in c..(t - 1) : ~MetaCaptureEnds(html, r)
    IN  IF ps = {} THEN NullTitle
        ELSE IF t = c THEN NullTitle
        ELSE CleanHtmlText(SubSeq(html, c, t - 1))

\* /(?:^|\n|\r|>)\s*title/ ends its prefix at position w, where "title"
\* is written: only white space lies between w and the start of the text,
\* a line break or a ">".
LooseLabelAt(s, w) ==
    /\ Spelled(s, w, TitleWord)
    /\ \E r \in 1..w :
           /\ \A k \in r..(w - 1) : s[k] \in Space
           /\ \/ r = 1
              \/ s[r - 1] \in HtmlGt
              \/ r < w /\ s[r] \in LineBreaks

\* looseTitleMatch[1] of lines 431-434 when it matched and is not empty,
\* cleaned as in lines 435-438; null otherwise.
LoosePatternTitle(html) ==
    LET ws == { w \in 1..Len(html) : LooseLabelAt(html, w) }
        c  == AfterColon(html, Least(ws) + Len(TitleWord))
        t  == FindAny(html, {".", "!", "?", "<"} \cup LineBreaks \cup LtTokens, c)
    IN  IF ws = {} THEN NullTitle
        ELSE IF t = c THEN NullTitle
        ELSE CleanHtmlText(SubSeq(html, c, t - 1))

\* headingMatch[1] of lines 447-448 cleaned as in lines 450-453, or null
H1Title(html) ==
    IF ElementText(html, "<h1>", "</h1>") = NullTitle THEN NullTitle
    ELSE CleanHtmlText(ElementText(html, "<h1>", "</h1>"))

\* !htmlTitle
Falsy(title) == title = NullTitle \/ title = << >>

\* if (!htmlTitle) { if (match && match[1]) htmlTitle = ... }
OrElse(htmlTitle, found) ==
    IF Falsy(htmlTitle) /\ found # NullTitle THEN found ELSE htmlTitle

\* The title cascade of the HTML branch: <title>, og:title, the
\* "meta title" pattern, the loose "title" pattern, <h1>.
HtmlTitle(html) ==
    OrElse(OrElse(OrElse(OrElse(TitleTagTitle(html), OgTitle(html)),
                         MetaPatternTitle(html)),
                  LoosePatternTitle(html)),
           H1Title(html))
\* The <body> element without <script> and <style>; the document alphabet
\* spells none of these tags, so bodyContent stays htmlText.
BodyContent(html) == html

\* The ParsedDocument of the HTML branch.
HtmlDocument(html) ==
    [text |-> BodyContent(html), title |-> HtmlTitle(html), links |-> parseHtmlForLinks(html)]

\* ------------------------------------------------------------------ inputs
\* n printable bytes.
Pad(n) == [j \in 1..n |-> "x"]

PadLengths ==
    { n \in 0..(NoteLimit + MaxPad) : n <= MaxPad \/ n >= NoteLimit - MaxPad }

\* Bytes the fallback strips or replaces, ahead of the printable part.
BytePrefixes ==
    { << >>, << "\t" >>, << "DEL", "\n" >>, << "C3", "A9" >>, << "A9" >> }

ByteBuffers == { p \o Pad(n) : p \in BytePrefixes, n \in PadLengths }

\* Text a decoder finds in a binary document.
DecodedTexts ==
    { << >>,
      << "\n", " ", "a", "b", " ", "\n", "H", "a", "b", ".", " ", "H", "a", "b" >>,
      << "W", "a", "b", " ", "A", "'", "/", "p", "'", ">", "x", "E" >> }

\* Phrases of HTML and plain-text documents: a quoted anchor, a bare URL with
\* and without a trailing full stop, a www. URL, an unquoted anchor, a
\* <link> tag, a <meta> tag, plain text.
DocPhrases ==
    { << "A", "\"", "S", "x", "/", "a", "\"", ">", "l", "E" >>,
      << "H", "y", "/", "b", "." >>,
      << "H", "y", "/", "b" >>,
      << "W", "a", "b" >>,
      << "A", "H", "a", "b", ">", "l", "E" >>,
      << "L", "'", "W", "c", "'", ">" >>,
      << "M", "\"", "S", "q", "\"", ">" >>,
      << "x", "." >> }

Docs == { JoinWords(ws) : ws \in UNION { [1..m -> DocPhrases] : m \in 0..MaxDocPhrases } }

\* Parts of HTML documents that carry a title: a <title> element with an
\* entity and runs of white space, or a blank one; an og:title tag; an <h1>;
\* a "meta title:" block ahead of "meta description:", or a "title:" label.
TitleParts ==
    { << >>,
      << "<title>", " ", "a", " ", " ", "&", "a", "m", "p", ";", "b", "\n", "</title>" >>,
      << "<title>", " ", "</title>" >> }
OgParts == { << >>, << OgOpen, "\"", "o", "g", "\"", ">" >> }
H1Parts == { << >>, << "<h1>", " ", "h", "d", "</h1>" >> }
LabelParts ==
    { << >>,
      MetaWord \o << " " >> \o TitleWord \o << ":", " ", "m", " ", "b", "\n" >>
          \o MetaWord \o << " " >> \o DescriptionWord \o << ":", " ", "d" >>,
      TitleWord \o << ":", " ", "l", "b", "." >> }

\* The parts one per line, the heading ahead of the labelled text.
TitledDocs ==
    { t \o << "\n" >> \o o \o << "\n" >> \o h \o << "\n" >> \o l :
          t \in TitleParts, o \in OgParts, h \in H1Parts, l \in LabelParts }

Kinds == {"pdf", "docx", "html", "txt"}

NoDocument == [text |-> << >>, title |-> NullTitle, links |-> << >>]

\* An invocation parseDocument(buffer, filename) that has not started; for a
\* PDF or DOCX file, embedded is the text a successful decode of it yields.
NewCall(kind, buffer, embedded) ==
    [pc |-> "idle", kind |-> kind, buffer |-> buffer, embedded |-> embedded,
     filePath |-> NULL, tempFilePath |-> NULL, readOf |-> NULL,
     outcome |-> "pending", out |-> NoDocument]

\* A single invocation draws its input from the full sets.
SoloCalls ==
    { NewCall(k, b, e) : k \in {"pdf", "docx"}, b \in ByteBuffers, e \in DecodedTexts }
        \cup { NewCall(k, d, << >>) : k \in {"html", "txt"}, d \in Docs }
        \cup { NewCall("html", d, << >>) : d \in TitledDocs }

\* Concurrent invocations each parse a short file.
ShortCalls ==
    { NewCall(k, << "\t", "x" >>, << "H", "a", "b" >>) : k \in {"pdf", "docx"} }
        \cup { NewCall(k, << "H", "a", "b" >>, << >>) : k \in {"html", "txt"} }

\* ------------------------------------------------------- processPdf steps
\* return doc
Return(call, doc) == [call EXCEPT !.pc = "done", !.outcome = "returned", !.out = doc]

MutNewNameFixed(n) == 1

\* `${uuidv4()}${extension}`: a name no earlier call of uuidv4 has produced.
NewName(n) == n + 1

\* The file of that name, as a set of at most one element.
FileAt(dir, name) == { f \in dir : f.name = name }

\* fs.writeFile creates or replaces the file.
Put(dir, name, data, owner) ==
    (dir \ FileAt(dir, name)) \cup {[name |-> name, data |-> data, owner |-> owner]}

\* fs.unlinkSync inside try/catch: removes the file, or fails and is logged.
Unlink(dir, name, ok) == IF ok THEN dir \ FileAt(dir, name) ELSE dir

\* catch (directParseError): tempFilePath = await saveTempFile(buffer, '.pdf')
MutOnDirectOkRetries(call, n) == [call EXCEPT !.pc = "writing", !.filePath = NewName(n)]

OnDirectFailed(call, n) == [call EXCEPT !.pc = "writing", !.filePath = NewName(n)]

\* const data = await pdfParse(buffer) resolved: return the document.
OnDirectOk(call, n) == Return(call, TextDocument(call.embedded))

\* catch (error) of processPdf and of parseDocx: the degraded document.  The
\* rethrow of the inner catch (fallbackError) needs buffer.toString to throw,
\* which it does not for a Buffer; no invocation ends with outcome "thrown".
OnFailure(call) == Return(call, Degraded(call.kind, call.buffer))

\* The retry's pdfParse(dataBuffer) rejected: the outer catch.
OnRetryFailed(call) == OnFailure(call)

\* saveTempFile rejected: the outer catch of processPdf takes it.
OnWriteFailed(call) == OnFailure(call)

\* ------------------------------------------------------------------ actions
LinkIdle ==
    /\ content = << >>
    /\ links = << >>
    /\ pc = "idle"
    /\ i = 0
    /\ probe = << >>
    /\ results = << >>
    /\ ret = NoResult
    /\ batchSizes = << >>
    /\ reordered = FALSE

InitParse ==
    /\ \E n \in 1..MaxCalls :
           calls \in [1..n -> IF n = 1 THEN SoloCalls ELSE ShortCalls]
    /\ tmpdir = {}
    /\ uuids = 0
    /\ log = [c \in DOMAIN calls |-> << >>]
    /\ LinkIdle
    /\ RouteIdle
    /\ TitleIdle
    /\ ExtractIdle
    /\ UploadIdle
    /\ FormIdle

Logged(c, events) == [log EXCEPT ![c] = @ \o events]

\* default: the buffer as text, its first line, extractLinksFromText
ParseText(c) ==
    /\ calls[c].pc = "idle"
    /\ calls[c].kind = "txt"
    /\ calls' = [calls EXCEPT ![c] = Return(@, TextDocument(Utf8Decode(@.buffer)))]
    /\ log' = Logged(c, << "text" >>)
    /\ UNCHANGED << tmpdir, uuids >>
    /\ UNCHANGED parseHost

\* case '.html', '.htm'
ParseHtml(c) ==
    /\ calls[c].pc = "idle"
    /\ calls[c].kind = "html"
    /\ calls' = [calls EXCEPT ![c] = Return(@, HtmlDocument(Utf8Decode(@.buffer)))]
    /\ log' = Logged(c, << "html" >>)
    /\ UNCHANGED << tmpdir, uuids >>
    /\ UNCHANGED parseHost

\* case '.docx', '.doc': await mammoth.extractRawText({ buffer })
CallDocx(c) ==
    /\ calls[c].pc = "idle"
    /\ calls[c].kind = "docx"
    /\ calls' = [calls EXCEPT ![c].pc = "docx"]
    /\ UNCHANGED << tmpdir, uuids, log >>
    /\ UNCHANGED parseHost

DocxOk(c) ==
    /\ calls[c].pc = "docx"
    /\ calls' = [calls EXCEPT ![c] = Return(@, TextDocument(@.embedded))]
    /\ log' = Logged(c, << "decode-ok" >>)
    /\ UNCHANGED << tmpdir, uuids >>
    /\ UNCHANGED parseHost

DocxFail(c) ==
    /\ calls[c].pc = "docx"
    /\ calls' = [calls EXCEPT ![c] = OnFailure(@)]
    /\ log' = Logged(c, << "decode-fail" >>)
    /\ UNCHANGED << tmpdir, uuids >>
    /\ UNCHANGED parseHost

\* case '.pdf': await pdfParse(buffer)
CallPdf(c) ==
    /\ calls[c].pc = "idle"
    /\ calls[c].kind = "pdf"
    /\ calls' = [calls EXCEPT ![c].pc = "direct"]
    /\ UNCHANGED << tmpdir, uuids, log >>
    /\ UNCHANGED parseHost

\* The direct decode resolved; finally finds tempFilePath null.
DirectDecodeOk(c) ==
    /\ calls[c].pc = "direct"
    /\ calls' = [calls EXCEPT ![c] = OnDirectOk(@, uuids)]
    /\ log' = Logged(c, << "decode-ok" >>)
    /\ UNCHANGED << tmpdir, uuids >>
    /\ UNCHANGED parseHost

\* The direct decode rejected: saveTempFile picks a name and starts the write.
DirectDecodeFail(c) ==
    /\ calls[c].pc = "direct"
    /\ calls' = [calls EXCEPT ![c] = OnDirectFailed(@, uuids)]
    /\ uuids' = uuids + 1
    /\ log' = Logged(c, << "decode-fail" >>)
    /\ UNCHANGED tmpdir
    /\ UNCHANGED parseHost

\* fs.writeFile finished: the file holds the buffer; its callback is queued.
WriteOk(c) ==
    /\ calls[c].pc = "writing"
    /\ tmpdir' = Put(tmpdir, calls[c].filePath, calls[c].buffer, c)
    /\ calls' = [calls EXCEPT ![c].pc = "written"]
    /\ log' = Logged(c, << "write-ok" >>)
    /\ UNCHANGED uuids
    /\ UNCHANGED parseHost

\* fs.writeFile failed, before or after it created the file: saveTempFile
\* rejects, tempFilePath stays null, the outer catch and finally run.
WriteFail(c, created) ==
    /\ calls[c].pc = "writing"
    /\ tmpdir' = IF created THEN Put(tmpdir, calls[c].filePath, << >>, c) ELSE tmpdir
    /\ calls' = [calls EXCEPT ![c] = OnWriteFailed(@)]
    /\ log' = Logged(c, << "write-fail" >>)
    /\ UNCHANGED uuids
    /\ UNCHANGED parseHost

\* saveTempFile resolved: tempFilePath = filePath; fs.readFileSync(tempFilePath);
\* pdfParse(dataBuffer) starts.  A missing file makes readFileSync throw: the
\* outer catch and finally run, and unlinkSync fails on the missing file.
SaveResolved(c) ==
    /\ calls[c].pc = "written"
    /\ IF FileAt(tmpdir, calls[c].filePath) # {}
       THEN /\ calls' = [calls EXCEPT
                  ![c].pc = "retry",
                  ![c].tempFilePath = calls[c].filePath,
                  ![c].readOf = (CHOOSE f \in FileAt(tmpdir, calls[c].filePath) : TRUE).owner]
            /\ log' = Logged(c, << "read" >>)
       ELSE /\ calls' = [calls EXCEPT
                  ![c] = OnFailure([@ EXCEPT !.tempFilePath = calls[c].filePath])]
            /\ log' = Logged(c, << "read-fail", "unlink-fail" >>)
    /\ UNCHANGED << tmpdir, uuids >>
    /\ UNCHANGED parseHost

\* What finally logs about the file at tempFilePath.
UnlinkEvent(c, ok) ==
    IF ~ok \/ FileAt(tmpdir, calls[c].tempFilePath) = {} THEN "unlink-fail"
    ELSE IF \E f \in FileAt(tmpdir, calls[c].tempFilePath) : f.owner # c
    THEN "unlink-other"
    ELSE "unlink"

\* The retry decode resolved: return the document; finally unlinks the file.
RetryDecodeOk(c, unlinked) ==
    /\ calls[c].pc = "retry"
    /\ calls' = [calls EXCEPT ![c] = Return(@, TextDocument(calls[@.readOf].embedded))]
    /\ tmpdir' = Unlink(tmpdir, calls[c].tempFilePath, unlinked)
    /\ log' = Logged(c, << "decode-ok", UnlinkEvent(c, unlinked) >>)
    /\ UNCHANGED uuids
    /\ UNCHANGED parseHost

\* The retry decode rejected: the degraded document; finally unlinks the file.
RetryDecodeFail(c, unlinked) ==
    /\ calls[c].pc = "retry"
    /\ calls' = [calls EXCEPT ![c] = OnRetryFailed(@)]
    /\ tmpdir' = Unlink(tmpdir, calls[c].tempFilePath, unlinked)
    /\ log' = Logged(c, << "decode-fail", UnlinkEvent(c, unlinked) >>)
    /\ UNCHANGED uuids
    /\ UNCHANGED parseHost

NextParse ==
    \/ \E c \in DOMAIN calls : ParseText(c)
    \/ \E c \in DOMAIN calls : ParseHtml(c)
    \/ \E c \in DOMAIN calls : CallDocx(c)
    \/ \E c \in DOMAIN calls : DocxOk(c)
    \/ \E c \in DOMAIN calls : DocxFail(c)
    \/ \E c \in DOMAIN calls : CallPdf(c)
    \/ \E c \in DOMAIN calls : DirectDecodeOk(c)
    \/ \E c \in DOMAIN calls : DirectDecodeFail(c)
    \/ \E c \in DOMAIN calls : WriteOk(c)
    \/ \E c \in DOMAIN calls : \E created \in BOOLEAN : WriteFail(c, created)
    \/ \E c \in DOMAIN calls : SaveResolved(c)
    \/ \E c \in DOMAIN calls : \E unlinked \in BOOLEAN : RetryDecodeOk(c, unlinked)
    \/ \E c \in DOMAIN calls : \E unlinked \in BOOLEAN : RetryDecodeFail(c, unlinked)

SpecParse == InitParse /\ [][NextParse]_vars

\* ------------------------------------------------- properties: parseDocument
\* How often event e occurs in the log of invocation c.
Count(c, e) == Cardinality({ k \in 1..Len(log[c]) : log[c][k] = e })

Finished(c) == calls[c].pc = "done"

\* Every decode attempt of invocation c failed.
AllDecodesFailed(c) ==
    /\ Count(c, "decode-ok") = 0
    /\ Count(c, "decode-fail") = (IF calls[c].kind = "pdf" THEN 2 ELSE 1)

\* The raw buffer as text, without the characters the fallback strips.
Stripped(c) == SelectSeq(Utf8Decode(calls[c].buffer), Kept)

\* The part of a degraded text between the note and the final "...".
Body(c) == SubSeq(calls[c].out.text, 2, Len(calls[c].out.text) - 3)

\* C11: when the PDF decoder fails on the direct attempt and on the retry, or
\* the DOCX decoder fails, parseDocument returns: the text is the diagnostic
\* note, then the first characters of the stripped raw buffer, at most 1000
\* of them (or the placeholder when nothing is left of the buffer), then
\* "..."; the title is the sentinel of the format; links is empty.
C11_DegradedResult ==
    \A c \in DOMAIN calls :
        (Finished(c) /\ calls[c].kind \in {"pdf", "docx"} /\ AllDecodesFailed(c)) =>
            /\ calls[c].outcome = "returned"
            /\ Len(calls[c].out.text) >= 4
            /\ calls[c].out.text[1] = (IF calls[c].kind = "pdf" THEN PdfNote ELSE DocxNote)
            /\ SubSeq(calls[c].out.text, Len(calls[c].out.text) - 2,
                      Len(calls[c].out.text)) = << ".", ".", "." >>
            /\ Len(Body(c)) <= 1000
            /\ IF Stripped(c) = << >>
               THEN Body(c) = << Placeholder >>
               ELSE /\ Len(Body(c)) = Min(Len(Stripped(c)), 1000)
                    /\ Body(c) = SubSeq(Stripped(c), 1, Len(Body(c)))
            /\ calls[c].out.title =
                   << IF calls[c].kind = "pdf" THEN PdfFailedTitle ELSE DocxFailedTitle >>
            /\ calls[c].out.links = << >>

\* A PDF whose two decodes failed and whose stripped buffer is longer than
\* the excerpt, with bytes the fallback strips ahead of it.
C11_Witness ==
    \E c \in DOMAIN calls :
        /\ Finished(c) /\ calls[c].kind = "pdf" /\ AllDecodesFailed(c)
        /\ Len(Stripped(c)) > 1000
        /\ Len(Stripped(c)) < Len(calls[c].buffer)

\* C12: every temporary file processPdf created is gone from the temporary
\* directory once the invocation has returned or thrown.
C12_TempFilesRemoved ==
    \A c \in DOMAIN calls :
        Finished(c) => \A f \in tmpdir : f.owner # c

\* C13: an invocation whose temporary file could not be written ends by
\* throwing, and an invocation that met decoder failures only ends by
\* returning a document.
C13_WriteFailurePropagates ==
    \A c \in DOMAIN calls :
        Finished(c) =>
            IF Count(c, "write-fail") > 0
            THEN calls[c].outcome = "thrown"
            ELSE calls[c].outcome = "returned"

\* Positions of the decode attempts in the log of invocation c.
Decodes(c) == { k \in 1..Len(log[c]) : log[c][k] \in {"decode-ok", "decode-fail"} }

\* Positions of the temp-file writes in the log of invocation c.
Writes(c) == { k \in 1..Len(log[c]) : log[c][k] \in {"write-ok", "write-fail"} }

\* C14: a PDF invocation decodes at most twice and writes at most one
\* temporary file; the write follows a failed direct decode and precedes the
\* second decode; after a successful direct decode there is no write, no
\* file and no further decode.
C14_RetryOnce ==
    \A c \in DOMAIN calls :
        calls[c].kind = "pdf" =>
            /\ Cardinality(Decodes(c)) <= 2
            /\ Cardinality(Writes(c)) <= 1
            /\ \A k \in Writes(c) : k = 2 /\ log[c][1] = "decode-fail"
            /\ \A k \in Decodes(c) :
                   k > 1 => /\ log[c][1] = "decode-fail"
                            /\ log[c][2] = "write-ok"
                            /\ log[c][3] = "read"
            /\ (Len(log[c]) > 0 /\ log[c][1] = "decode-ok") =>
                   /\ log[c] = << "decode-ok" >>
                   /\ Finished(c)
                   /\ \A f \in tmpdir : f.owner # c

\* A PDF invocation that failed directly, wrote the file once and decoded a
\* second time.
C14_Witness ==
    \E c \in DOMAIN calls :
        /\ Finished(c) /\ calls[c].kind = "pdf"
        /\ Cardinality(Decodes(c)) = 2
        /\ Cardinality(Writes(c)) = 1

\* C15: the temp files of distinct invocations have distinct names, a file
\* in the temporary directory lies at the path its writer chose, an
\* invocation reads only the file it wrote itself and never finds it missing,
\* and it unlinks no file another invocation wrote.
C15_OwnTempFile ==
    /\ \A c, d \in DOMAIN calls :
           (c # d /\ calls[c].filePath # NULL) => calls[c].filePath # calls[d].filePath
    /\ \A f \in tmpdir : calls[f.owner].filePath = f.name
    /\ \A c \in DOMAIN calls :
           /\ calls[c].readOf \in {NULL, c}
           /\ Count(c, "read-fail") = 0
           /\ Count(c, "unlink-other") = 0

\* Two invocations retry at the same time: both files exist, one invocation
\* has read its file and the other one is about to.
C15_Witness ==
    \E c, d \in DOMAIN calls :
        /\ c # d
        /\ calls[c].pc = "retry" /\ calls[c].readOf = c
        /\ calls[d].pc = "written"
        /\ Cardinality(tmpdir) >= 2

\* The example's HTML document: <a href="https://x/a">l</a> http://y/b.
ExampleHtml ==
    << "A", "\"", "S", "x", "/", "a", "\"", ">", "l", "E", " ", "H", "y", "/", "b", "." >>

NoTwoEqual(s) == \A j, k \in 1..Len(s) : j # k => s[j] # s[k]

\* C16: the links of every returned document hold no string twice, and the
\* HTML document whose anchor href is https://x/a and whose text holds
\* "http://y/b." yields exactly [https://x/a, http://y/b].
C16_LinksDeduplicated ==
    \A c \in DOMAIN calls :
        (Finished(c) /\ calls[c].outcome = "returned") =>
            /\ NoTwoEqual(calls[c].out.links)
            /\ (calls[c].kind = "html" /\ calls[c].buffer = ExampleHtml) =>
                   calls[c].out.links = << << "S", "x", "/", "a" >>, << "H", "y", "/", "b" >> >>

\* The order of sources C21 states: <title>, og:title, <h1>, and only then
\* the title-label text patterns (the documents hold no <h2> and no bold
\* element).
ClaimedHtmlTitle(html) ==
    OrElse(OrElse(OrElse(OrElse(TitleTagTitle(html), OgTitle(html)), H1Title(html)),
                  MetaPatternTitle(html)),
           LoosePatternTitle(html))

\* C21: the title of an .html document comes from the first source that
\* yields one in the order <title>, og:title, <h1>, and only then the
\* "Meta Title:" and title-label text patterns; a document without <title>
\* and og:title that has an <h1> and a "Meta Title:" block gets the <h1> text.
C21_HtmlTitleOrder ==
    \A c \in DOMAIN calls :
        (Finished(c) /\ calls[c].outcome = "returned" /\ calls[c].kind = "html") =>
            calls[c].out.title = ClaimedHtmlTitle(Utf8Decode(calls[c].buffer))

\* ======================================================================
\* POST /api/evaluate (server/routes.ts)
\* ======================================================================

\* ------------------------------------------------------------------ bounds
\* Largest number of links in the content of a request.
MaxRouteLinks == 2

\* ------------------------------------------------------------------ inputs
\* A field the request body does not have.
Absent == << "undefined" >>

RouteContents ==
    {Absent, << >>, << "x", "." >>} \cup { ManyLinks(n) : n \in 1..MaxRouteLinks }

\* checkLinks: missing, a boolean, or a value that is no boolean.
Flags == {"absent", "true", "false", "invalid"}

\* The bodies of requests; title and keyword are optional strings the
\* handler passes on unchanged and are left out.
Requests ==
    [content : RouteContents, apiKey : {Absent, << >>, << "k" >>}, checkLinks : Flags]

\* ------------------------------------------------------------ handler steps
MutValidNoKey(body) ==
    /\ body.content # Absent /\ Len(body.content) >= 1
    /\ body.checkLinks # "invalid"

\* schema.safeParse(req.body).success
Valid(body) ==
    /\ body.content # Absent /\ Len(body.content) >= 1
    /\ body.apiKey # Absent /\ Len(body.apiKey) >= 1
    /\ body.checkLinks # "invalid"

NewRoute ==
    [pc |-> "received", linkCheckResult |-> << >>, evaluated |-> << >>, sent |-> << >>]

\* return res.status(code).json(...)
Respond(r, code) == [r EXCEPT !.pc = "responded", !.sent = Append(@, code)]

\* await evaluateContent({ content, title, keyword, apiKey, checkLinks,
\* linkCheckResult }); a null linkCheckResult is the empty sequence.
CallEvaluator(r, body, result) ==
    [r EXCEPT !.pc = "evaluating",
              !.linkCheckResult = result,
              !.evaluated = Append(@, [content |-> body.content,
                                       apiKey |-> body.apiKey,
                                       checkLinks |-> body.checkLinks,
                                       linkCheckResult |-> result])]

MutCheckSettledEarly == pc \in {"await", "done", "failed"}

\* await checkContentLinks(content) has settled.
CheckSettled == pc \in {"done", "failed"}

\* ------------------------------------------------------------------ actions
InitRoute ==
    /\ req \in Requests
    /\ route = NewRoute
    /\ LinkIdle
    /\ ParseIdle
    /\ TitleIdle
    /\ ExtractIdle
    /\ UploadIdle
    /\ FormIdle

\* if (!validationResult.success) return res.status(400).json(...)
Reject ==
    /\ route.pc = "received"
    /\ ~Valid(req)
    /\ route' = Respond(route, 400)
    /\ UNCHANGED << req, linkVars, routeHost >>

\* if (checkLinks === true): checkContentLinks(content) is called.
StartLinkCheck ==
    /\ route.pc = "received"
    /\ Valid(req)
    /\ req.checkLinks = "true"
    /\ route' = [route EXCEPT !.pc = "checking"]
    /\ content' = req.content
    /\ pc' = "start"
    /\ UNCHANGED << links, i, probe, results, ret, batchSizes, reordered >>
    /\ UNCHANGED << req, routeHost >>

\* checkLinks is false or missing: linkCheckResult stays null.
SkipLinkCheck ==
    /\ route.pc = "received"
    /\ Valid(req)
    /\ req.checkLinks # "true"
    /\ route' = CallEvaluator(route, req, << >>)
    /\ UNCHANGED << req, linkVars, routeHost >>

\* The awaited promise settled: its value becomes linkCheckResult; a
\* rejection is caught and leaves null.  evaluateContent is called.
LinkCheckSettled ==
    /\ route.pc = "checking"
    /\ CheckSettled
    /\ route' = CallEvaluator(route, req, IF pc = "done" THEN << ret >> ELSE << >>)
    /\ UNCHANGED << req, linkVars, routeHost >>

\* return res.status(200).json(evaluation)
EvaluatorOk ==
    /\ route.pc = "evaluating"
    /\ route' = Respond(route, 200)
    /\ UNCHANGED << req, linkVars, routeHost >>

\* evaluateContent rejected: the outer catch answers 500.
EvaluatorFail ==
    /\ route.pc = "evaluating"
    /\ route' = Respond(route, 500)
    /\ UNCHANGED << req, linkVars, routeHost >>

NextRoute ==
    \/ Reject
    \/ StartLinkCheck
    \/ SkipLinkCheck
    \/ Start
    \/ BatchStart
    \/ \E k \in 1..Len(probe) : \E s \in Statuses : HeadRespond(k, s)
    \/ \E k \in 1..Len(probe) : HeadNetworkError(k)
    \/ \E k \in 1..Len(probe) : HeadTimeout(k)
    \/ \E k \in 1..Len(probe) : HeadTimerLate(k)
    \/ \E k \in 1..Len(probe) : \E s \in Statuses : GetRespond(k, s)
    \/ \E k \in 1..Len(probe) : GetNetworkError(k)
    \/ \E k \in 1..Len(probe) : GetTimeout(k)
    \/ BatchEnd
    \/ Finish
    \/ LinkCheckSettled
    \/ EvaluatorOk
    \/ EvaluatorFail

SpecRoute == InitRoute /\ [][NextRoute]_vars

\* ---------------------------------------------------- properties: the route
EvaluatorCalled == Len(route.evaluated) > 0

\* C17: the evaluator is called only when no probe is in flight.  With
\* checkLinks true, checkLinks(content) has returned and every probe has
\* settled by then, and the evaluator receives the LinkCheckResult returned;
\* with checkLinks false or missing no probe is ever issued and the
\* evaluator receives null.
C17_LinkCheckBeforeEvaluator ==
    /\ (\E k \in 1..Len(probe) : probe[k].pc # "done") => ~EvaluatorCalled
    /\ (EvaluatorCalled /\ req.checkLinks = "true") =>
           /\ pc = "done"
           /\ content = req.content
           /\ Len(probe) = Len(extractLinks(req.content))
           /\ \A k \in 1..Len(probe) : probe[k].pc = "done"
           /\ route.evaluated[1].linkCheckResult = << ret >>
           /\ ret.totalLinks = Len(probe)
    /\ req.checkLinks # "true" =>
           /\ pc = "idle" /\ probe = << >>
           /\ EvaluatorCalled => route.evaluated[1].linkCheckResult = << >>

\* The evaluator was called with the result of a check of two links, one
\* of them broken.
C17_Witness ==
    /\ EvaluatorCalled
    /\ req.checkLinks = "true"
    /\ route.evaluated[1].linkCheckResult = << ret >>
    /\ ret.totalLinks = 2
    /\ ret.brokenLinks = 1

\* A request the claim calls invalid: empty content, or an empty or missing
\* apiKey.
EmptyRequest ==
    req.content = << >> \/ req.apiKey = << >> \/ req.apiKey = Absent

\* C18: a request with empty content, or with an empty or missing apiKey,
\* gets no answer but 400, and neither a probe nor the evaluator is invoked
\* for it.
C18_InvalidRejected ==
    EmptyRequest =>
        /\ route.pc \in {"received", "responded"}
        /\ route.pc = "responded" => route.sent = << 400 >>
        /\ route.pc = "received" => route.sent = << >>
        /\ ~EvaluatorCalled
        /\ pc = "idle" /\ probe = << >> /\ links = << >>

\* Answered 400: empty content with checkLinks true, and a missing apiKey
\* with content that holds links.
C18_Witness ==
    /\ route.sent = << 400 >>
    /\ \/ req.content = << >> /\ req.apiKey = << "k" >> /\ req.checkLinks = "true"
       \/ req.content = ManyLinks(1) /\ req.apiKey = Absent /\ req.checkLinks = "true"

\* ---------------------------------------- the route's revision part_012
\* This revision of the handler destructures the request's flag as
\* checkLinks and then calls checkLinks(content): with the flag true the
\* call is that of a boolean and throws a TypeError.
MutCatchLinkCheckAnswers(r, body) == Respond(r, 500)

\* catch (error) { console.error(...) }: linkCheckResult stays null and
\* evaluateContent is called.
CatchLinkCheck(r, body) == CallEvaluator(r, body, << >>)

\* if (checkLinks === true) { try { await checkLinks(content) } catch ... }
LinkCheckThrows ==
    /\ route.pc = "received"
    /\ Valid(req)
    /\ req.checkLinks = "true"
    /\ route' = CatchLinkCheck(route, req)
    /\ UNCHANGED << req, linkVars, routeHost >>

NextRouteShadowed ==
    \/ Reject
    \/ LinkCheckThrows
    \/ SkipLinkCheck
    \/ EvaluatorOk
    \/ EvaluatorFail

SpecRouteShadowed == InitRoute /\ [][NextRouteShadowed]_vars

\* C26: when checkLinks throws while a request with checkLinks = true is
\* handled, the evaluator is still called, with a null link-check result,
\* and the link check causes no error answer: a valid request is answered
\* only after the evaluator was called, once, with 200 or (the evaluator
\* having failed) 500, and never twice.
C26_LinkCheckFailureTolerated ==
    /\ (EvaluatorCalled /\ req.checkLinks = "true") =>
           route.evaluated[1].linkCheckResult = << >>
    /\ Len(route.sent) <= 1
    /\ Len(route.sent) = 1 <=> route.pc = "responded"
    /\ (Valid(req) /\ route.pc = "responded") =>
           /\ Len(route.evaluated) = 1
           /\ route.sent[1] \in {200, 500}
    /\ (Valid(req) /\ route.pc = "evaluating") => route.sent = << >>

\* The link check threw, the evaluator was called with null and the request
\* was answered 200.
C26_Witness ==
    /\ req.checkLinks = "true"
    /\ route.pc = "responded"
    /\ route.sent = << 200 >>
    /\ route.evaluated[1].linkCheckResult = << >>
    /\ route.evaluated[1].content = ManyLinks(1)

\* ======================================================================
\* extractTitleFromContent (client: comparative input form)
\*
\* Text is a sequence of characters; labels are spelled out.
\* ======================================================================

\* ------------------------------------------------------------------ bounds
\* Largest length of the value or line of a generated text.
MaxTitleLen == 201

\* Lower case of the letters the labels use (flag i).
Lower(c) ==
    CASE c = "M" -> "m" [] c = "E" -> "e" [] c = "T" -> "t" [] c = "A" -> "a"
      [] c = "I" -> "i" [] c = "L" -> "l" [] c = "D" -> "d" [] c = "S" -> "s"
      [] c = "C" -> "c" [] c = "R" -> "r" [] c = "P" -> "p" [] c = "O" -> "o"
      [] c = "N" -> "n" [] OTHER -> c

\* word occurs at position p of s, letter case ignored.
WordAt(s, p, word) ==
    /\ p >= 1
    /\ p + Len(word) - 1 <= Len(s)
    /\ \A j \in 1..Len(word) : Lower(s[p + j - 1]) = word[j]

\* /Meta\s+word\s*:/i matched at position p: the position of its colon, or 0.
LabelColon(s, p, word) ==
    LET w == p + Len(MetaWord)
        a == SkipAll(s, Space, w)
        b == SkipAll(s, Space, a + Len(word))
    IN  IF WordAt(s, p, MetaWord) /\ a > w /\ WordAt(s, a, word)
             /\ b <= Len(s) /\ s[b] = ":"
        THEN b ELSE 0

\* Positions at or after p where the label matches.
LabelsFrom(s, p, word) == { q \in p..Len(s) : LabelColon(s, q, word) # 0 }

\* s.replace(/["'\r\n]+$/, '')
RECURSIVE DropQuoteTail(_)
DropQuoteTail(s) ==
    IF Len(s) > 0 /\ s[Len(s)] \in {"\"", "'", "\r", "\n"}
    THEN DropQuoteTail(SubSeq(s, 1, Len(s) - 1))
    ELSE s

MutAcceptedFromFive(title) == Len(title) >= 5 /\ Len(title) < 200

\* title.length > 5 && title.length < 200
Accepted(title) == Len(title) > 5 /\ Len(title) < 200

\* The text between "Meta Title:" and "Meta Description:", cut at the first
\* line break: metaTitleDescExtracted, or the empty string for null.
MetaDescExtracted(text) ==
    LET titles == LabelsFrom(text, 1, TitleWord)
        p      == Least(titles)
        colon  == FindAny(text, {":"}, p)
        descs  == LabelsFrom(text, p, DescriptionWord)
        desc   == Least(descs)
        break  == FindAny(text, LineBreaks, colon + 1)
    IN  IF titles = {} \/ descs = {} THEN << >>
        ELSE TrimWs(SubSeq(text, colon + 1, (IF break < desc THEN break ELSE desc) - 1))

\* metaTitleDescExtracted.replace(/["'\r\n]+$/, '').trim()
MetaDescTitle(text) == TrimWs(DropQuoteTail(MetaDescExtracted(text)))

\* A character of [^.!?\r\n].
InSentence(c) == c \notin {".", "!", "?", "\r", "\n"}

\* /Meta\s+[tT]itle\s*:([^.!?\r\n]+)/i: group 1 of the first match, or the
\* empty string when nothing matches.
MetaColonCapture(text) ==
    LET ms == { q \in LabelsFrom(text, 1, TitleWord) :
                    /\ LabelColon(text, q, TitleWord) < Len(text)
                    /\ InSentence(text[LabelColon(text, q, TitleWord) + 1]) }
        c  == LabelColon(text, Least(ms), TitleWord)
    IN  IF ms = {} THEN << >>
        ELSE SubSeq(text, c + 1, FindAny(text, {".", "!", "?", "\r", "\n"}, c + 1) - 1)

\* metaTitleColonMatch[1].trim().replace(/["'\r\n]+$/, '').trim()
MetaColonTitle(text) == TrimWs(DropQuoteTail(TrimWs(MetaColonCapture(text))))

\* Number of characters of [^\r\n] that follow position k, at most 100.
LineRun(text, k) == Min(FindAny(text, LineBreaks, k + 1) - (k + 1), 100)

\* /^\s*([^\r\n]{10,100})/: group 1, or the empty string when nothing
\* matches.  \s* takes the leading white space and gives back as much of it
\* as the group needs to reach 10 characters.
FirstLineCapture(text) ==
    LET lead == SkipAll(text, Space, 1) - 1
        ks   == { k \in 0..lead : LineRun(text, k) >= 10 }
        k    == lead - Least({ lead - j : j \in ks })
    IN  IF ks = {} THEN << >>
        ELSE SubSeq(text, k + 1, k + LineRun(text, k))

NoTitle == [null |-> TRUE, value |-> << >>, via |-> "none"]

Title(value, via) == [null |-> FALSE, value |-> value, via |-> via]

\* extractTitleFromContent(text)
extractTitleFromContent(text) ==
    IF TrimWs(text) = << >> THEN NoTitle
    ELSE IF MetaDescExtracted(text) # << >> /\ Accepted(MetaDescTitle(text))
    THEN Title(MetaDescTitle(text), "meta-description")
    ELSE IF MetaColonCapture(text) # << >> /\ Accepted(MetaColonTitle(text))
    THEN Title(MetaColonTitle(text), "meta-colon")
    ELSE IF FirstLineCapture(text) # << >>
    THEN Title(TrimWs(FirstLineCapture(text)), "first-line")
    ELSE NoTitle

\* ------------------------------------------------------------------ inputs
TitleLabel == << "M", "e", "t", "a", " ", "T", "i", "t", "l", "e", ":" >>
DescriptionLabel ==
    << "M", "e", "t", "a", " ", "D", "e", "s", "c", "r", "i", "p", "t", "i", "o", "n", ":" >>

\* Shapes of generated text around a value or line of n letters:
\*   block    Meta Title: value, line break, Meta Description: d
\*   quoted   the same with a closing quote after the value
\*   label    Meta Title: value, and nothing else
\*   line     the n letters alone
\*   indent   a blank line and a blank ahead of the n letters
MetaShapes == {"block", "quoted", "label"}
Shapes == MetaShapes \cup {"line", "indent"}

TextOf(shape, n) ==
    CASE shape = "block" ->
             TitleLabel \o << " " >> \o Pad(n) \o << "\n" >> \o DescriptionLabel \o << " ", "d" >>
      [] shape = "quoted" ->
             TitleLabel \o << " " >> \o Pad(n) \o << "\"", "\n" >> \o DescriptionLabel
                 \o << " ", "d" >>
      [] shape = "label" -> TitleLabel \o << " " >> \o Pad(n)
      [] shape = "line" -> Pad(n)
      [] shape = "indent" -> << " ", "\n", " " >> \o Pad(n)

TitleInputs ==
    { [shape |-> sh, n |-> n, text |-> TextOf(sh, n)] : sh \in Shapes, n \in 0..MaxTitleLen }

\* ------------------------------------------------------------------ actions
InitTitle ==
    /\ titleInput \in TitleInputs
    /\ titleResult = << >>
    /\ LinkIdle
    /\ ParseIdle
    /\ RouteIdle
    /\ ExtractIdle
    /\ UploadIdle
    /\ FormIdle

\* const title = extractTitleFromContent(text)
ExtractTitle ==
    /\ titleResult = << >>
    /\ titleResult' = << extractTitleFromContent(titleInput.text) >>
    /\ UNCHANGED titleInput
    /\ UNCHANGED titleHost

NextTitle == ExtractTitle

SpecTitle == InitTitle /\ [][NextTitle]_vars

\* -------------------------------------- properties: extractTitleFromContent
TitleReturned == titleResult # << >>

ViaMeta(r) == r.via \in {"meta-description", "meta-colon"}

\* C19: a title taken by a "Meta Title:" strategy has more than 5 and fewer
\* than 200 characters.  For text whose "Meta Title:" value has n characters
\* after the quote and line-break remnants are trimmed: if 5 < n < 200 the
\* value is returned; if n <= 5 or n >= 200 (4, 5, 200) no "Meta Title:"
\* strategy returns and the cascade goes on to the first-line strategy.
C19_MetaTitleWindow ==
    TitleReturned =>
        /\ ViaMeta(titleResult[1]) =>
               /\ ~titleResult[1].null
               /\ Len(titleResult[1].value) > 5
               /\ Len(titleResult[1].value) < 200
        /\ titleInput.shape \in MetaShapes =>
               IF titleInput.n > 5 /\ titleInput.n < 200
               THEN /\ ViaMeta(titleResult[1])
                    /\ titleResult[1].value = Pad(titleInput.n)
               ELSE /\ titleResult[1].via = "first-line"
                    /\ titleResult[1].value # Pad(titleInput.n)

\* A 5-character value between "Meta Title:" and "Meta Description:" was
\* rejected and the first-line strategy answered.
C19_Witness ==
    /\ TitleReturned
    /\ titleInput.shape = "block"
    /\ titleInput.n = 5
    /\ titleResult[1].via = "first-line"

\* The first line of text that holds a character other than white space.
FirstNonEmptyLine(text) ==
    LET a  == SkipAll(text, Space, 1)
        ls == CHOOSE q \in 1..a :
                  /\ q = 1 \/ text[q - 1] \in LineBreaks
                  /\ \A r \in q..(a - 1) : text[r] \notin LineBreaks
    IN  SubSeq(text, ls, FindAny(text, LineBreaks, a) - 1)

\* C20: when no "Meta Title:" strategy answers, the result is the first
\* non-empty line as written if it has 10 to 100 characters, and null
\* otherwise: a longer or shorter first non-empty line yields null.
C20_FirstLineOrNull ==
    (TitleReturned /\ ~ViaMeta(titleResult[1])) =>
        IF /\ TrimWs(titleInput.text) # << >>
           /\ Len(FirstNonEmptyLine(titleInput.text)) >= 10
           /\ Len(FirstNonEmptyLine(titleInput.text)) <= 100
        THEN /\ ~titleResult[1].null
             /\ titleResult[1].value = FirstNonEmptyLine(titleInput.text)
        ELSE titleResult[1].null

\* ======================================================================
\* Link extraction: extractLinks (server/lib/linkChecker.ts) and
\* extractLinksFromText (server/lib/documentParser.ts) on the same text
\* ======================================================================

\* ------------------------------------------------------------------ bounds
\* Largest number of phrases in a text given to the extractors.
MaxExtractPhrases == 2

\* ------------------------------------------------------------------ inputs
\* Phrases: an anchor with a double-quoted and with a single-quoted href, the
\* same URL bare, with and without a full stop; a www. URL without a
\* protocol, with and without a full stop; the www. URL written with
\* http:// and with https://; plain text.
ExtractPhrases ==
    { << "A", "\"", "H", "a", "b", "\"", ">", "l", "E" >>,
      << "A", "'", "H", "a", "b", "'", ">", "l", "E" >>,
      << "H", "a", "b" >>,
      << "H", "a", "b", "." >>,
      << "W", "c", "d" >>,
      << "W", "c", "d", "." >>,
      << "H", "W", "c", "d" >>,
      << "S", "W", "c", "d" >>,
      << "x", "." >> }

ExtractTexts ==
    { JoinWords(ws) : ws \in UNION { [1..m -> ExtractPhrases] : m \in 1..MaxExtractPhrases } }

\* ------------------------------------------------------------------ actions
extractHost == << linkVars, parseVars, routeVars, titleVars, uploadVars, formVars >>

InitExtract ==
    /\ extraction \in { [text |-> t, checker |-> << >>, parser |-> << >>] : t \in ExtractTexts }
    /\ LinkIdle
    /\ ParseIdle
    /\ RouteIdle
    /\ TitleIdle
    /\ UploadIdle
    /\ FormIdle

\* const links = extractLinks(content)
CallExtractLinks ==
    /\ extraction.checker = << >>
    /\ extraction' = [extraction EXCEPT !.checker = << extractLinks(extraction.text) >>]
    /\ UNCHANGED extractHost

\* const links = extractLinksFromText(text)
CallExtractLinksFromText ==
    /\ extraction.parser = << >>
    /\ extraction' = [extraction EXCEPT !.parser = << extractLinksFromText(extraction.text) >>]
    /\ UNCHANGED extractHost

NextExtract == CallExtractLinks \/ CallExtractLinksFromText

SpecExtract == InitExtract /\ [][NextExtract]_vars

\* ------------------------------------------------ properties: extraction
\* Number of times url occurs in the sequence list.
Occurrences(list, url) == Cardinality({ k \in 1..Len(list) : list[k] = url })

\* The URLs the text holds inside an anchor's href.
HrefUrls(text) == { HrefLinks(text, 1)[k] : k \in 1..Len(HrefLinks(text, 1)) }

\* url is written in the text as a bare link: at the start of a word and
\* followed by the end of the word or by punctuation.
WrittenBare(text, url) ==
    \E p \in 1..Len(text) :
        /\ Spelled(text, p, url)
        /\ p = 1 \/ text[p - 1] \in Space
        /\ \/ p + Len(url) > Len(text)
           \/ text[p + Len(url)] \in Space \cup Punct

\* link is url followed by quotes or punctuation only.
VariantOf(link, url) ==
    /\ Len(link) > Len(url)
    /\ SubSeq(link, 1, Len(url)) = url
    /\ \A k \in (Len(url) + 1)..Len(link) : link[k] \in Punct \cup Quotes

\* C22: when the same URL occurs inside an anchor href (double- or
\* single-quoted) and as a bare link, extractLinks returns it exactly once,
\* where the href put it (hrefs are discovered first, in their order), and
\* returns no variant of it that differs by a trailing quote or punctuation.
C22_HrefAndBareOnce ==
    extraction.checker # << >> =>
        /\ \A url \in HrefUrls(extraction.text) :
               WrittenBare(extraction.text, url) =>
                   /\ Occurrences(extraction.checker[1], url) = 1
                   /\ \A k \in 1..Len(extraction.checker[1]) :
                          ~VariantOf(extraction.checker[1][k], url)
        /\ (\E url \in HrefUrls(extraction.text) : WrittenBare(extraction.text, url)) =>
               SubSeq(extraction.checker[1], 1,
                      Len(RemoveDuplicates(HrefLinks(extraction.text, 1), {})))
                   = RemoveDuplicates(HrefLinks(extraction.text, 1), {})

\* The word of the text that starts at position p.
WordFrom(text, p) == SubSeq(text, p, FindAny(text, Space, p) - 1)

\* Positions where a www. URL is written without a protocol.
BareWww(text) ==
    { p \in 1..Len(text) : text[p] = "W" /\ (p = 1 \/ text[p - 1] \in Space) }

\* The text spells link as written, or spells it without its http:// where
\* no protocol precedes.
WrittenOrPrepended(text, link) ==
    \E p \in 1..Len(text) :
        \/ Spelled(text, p, link)
        \/ /\ Spelled(text, p, Tail(link))
           /\ p = 1 \/ text[p - 1] \notin {"H", "S"}

\* C23: a www. URL written without a protocol is returned once, with http://
\* prepended; the rule applies to such URLs only: a URL written as
\* http://www... or https://www... yields the URL as written, once, and no
\* further http://www... entry.
C23_WwwOnlyWithoutProtocol ==
    extraction.parser # << >> =>
        /\ \A p \in BareWww(extraction.text) :
               Occurrences(extraction.parser[1],
                           << "H" >> \o StripTrailing(WordFrom(extraction.text, p))) = 1
        /\ \A p \in 1..Len(extraction.text) :
               (extraction.text[p] \in {"H", "S"} /\ p < Len(extraction.text)
                    /\ extraction.text[p + 1] = "W") =>
                   Occurrences(extraction.parser[1],
                               StripTrailing(WordFrom(extraction.text, p))) = 1
        /\ \A k \in 1..Len(extraction.parser[1]) :
               (Len(extraction.parser[1][k]) >= 2 /\ extraction.parser[1][k][1] = "H"
                    /\ extraction.parser[1][k][2] = "W") =>
                   WrittenOrPrepended(extraction.text, extraction.parser[1][k])

\* ======================================================================
\* POST /api/parse-document (server/routes.ts)
\* ======================================================================

\* ------------------------------------------------------------------ bounds
\* Largest number of concurrent requests to the endpoint.
MaxUploads == 3

\* ------------------------------------------------------------------ inputs
\* A request as upload.single('file') hands it to the handler: with req.file
\* set and the file written to os.tmpdir(), or without a file.
NewUpload(hasFile) == [pc |-> "received", file |-> hasFile, status |-> NULL]

\* ------------------------------------------------------------------ actions
uploadHost == << linkVars, parseVars, routeVars, titleVars, extractVars, formVars >>

InitUpload ==
    /\ \E n \in 1..MaxUploads :
           uploads \in [1..n -> { NewUpload(f) : f \in BOOLEAN }]
    /\ uploadDir = { r \in DOMAIN uploads : uploads[r].file }
    /\ LinkIdle
    /\ ParseIdle
    /\ RouteIdle
    /\ TitleIdle
    /\ ExtractIdle
    /\ FormIdle

\* return res.status(s).json(...)
Answer(u, s) == [u EXCEPT !.pc = "answered", !.status = s]

\* if (!req.file) return res.status(400)
NoFileUploaded(r) ==
    /\ uploads[r].pc = "received"
    /\ ~uploads[r].file
    /\ uploads' = [uploads EXCEPT ![r] = Answer(@, 400)]
    /\ UNCHANGED uploadDir
    /\ UNCHANGED uploadHost

\* fs.readFileSync(filePath) returns; parseDocument is called and awaited
ReadFile(r) ==
    /\ uploads[r].pc = "received"
    /\ uploads[r].file
    /\ uploads' = [uploads EXCEPT ![r].pc = "parsing"]
    /\ UNCHANGED uploadDir
    /\ UNCHANGED uploadHost

\* fs.readFileSync(filePath) throws: catch (error), 500
ReadFileFails(r) ==
    /\ uploads[r].pc = "received"
    /\ uploads[r].file
    /\ uploads' = [uploads EXCEPT ![r] = Answer(@, 500)]
    /\ UNCHANGED uploadDir
    /\ UNCHANGED uploadHost

\* parseDocument resolved; fs.unlinkSync(filePath) removes the file; 200
ParsedAndUnlinked(r) ==
    /\ uploads[r].pc = "parsing"
    /\ uploads' = [uploads EXCEPT ![r] = Answer(@, 200)]
    /\ uploadDir' = uploadDir \ {r}
    /\ UNCHANGED uploadHost

\* parseDocument resolved; fs.unlinkSync(filePath) throws: catch (error), 500
UnlinkThrows(r) ==
    /\ uploads[r].pc = "parsing"
    /\ uploads' = [uploads EXCEPT ![r] = Answer(@, 500)]
    /\ UNCHANGED uploadDir
    /\ UNCHANGED uploadHost

NextUpload ==
    \E r \in DOMAIN uploads :
        \/ NoFileUploaded(r)
        \/ ReadFile(r)
        \/ ReadFileFails(r)
        \/ ParsedAndUnlinked(r)
        \/ UnlinkThrows(r)

SpecUpload == InitUpload /\ [][NextUpload]_vars

\* ------------------------------------- properties: POST /api/parse-document
\* C25: for every request that carried a file, the uploaded temporary file
\* has been removed by the time the response is sent, on 200 and on 500.
C25_UploadRemoved ==
    \A r \in DOMAIN uploads :
        (uploads[r].file /\ uploads[r].pc = "answered") => r \notin uploadDir

\* ---------------------------------------------------------------------------
\* The comparative input form (client/src/components/ui/
\* comparative-input-form.tsx).  A handler is a closure of the render in which
\* it was created: what it reads of competingArticles is the list of that
\* render, also after an await.  Discrete events are followed by a render, so
\* a synchronous handler reads the current list; a handler resumed after its
\* request reads the list of the render in which it was started.  Indexes are
\* the source's plus one.  Toasts are notifications and no part of the form's
\* state.
\* ---------------------------------------------------------------------------

\* Bounds: competing articles in the list, requests awaited at once.
MaxArticles == 2
MaxInflight == 2

\* { title: "", content: "" }
EmptyArticle == [title |-> "", content |-> ""]

\* What the user types into a title, a content or the API key field, and what
\* the server answers ({ text, title } of /api/parse-document and
\* /api/fetch-url).
Typed(field) == IF field = "content" THEN {" ", "u"} ELSE {"u"}
Data == [title : {"", "u"}, text : {"", "u"}]

\* a || b on strings.
OrString(a, b) == IF a = "" THEN b ELSE a

\* String.prototype.trim on the values above.
TrimValue(s) == IF s = " " THEN "" ELSE s

\* articles.filter((_, i) => i !== index)
Without(articles, index) ==
    [j \in 1..(Len(articles) - 1) |->
        IF j < index THEN articles[j] ELSE articles[j + 1]]

MutRemovedAlways(articles, index) == Without(articles, index)

\* removeCompetingArticle: the list it sets, or the list as it is when the
\* guard returns early.
Removed(articles, index) ==
    IF Len(articles) <= 1 THEN articles ELSE Without(articles, index)

\* updatedArticles[index] = { title: data.title || updatedArticles[index].title
\* || "", content: data.text || "" } on a copy of the list the handler closed
\* over.
Filled(closed, index, data) ==
    [closed EXCEPT ![index] =
        [title |-> OrString(OrString(data.title, closed[index].title), ""),
         content |-> OrString(data.text, "")]]

\* setComparativeState(prev => ({ ...prev, isLoading: true, error: null }))
LoadingOn(state) == [state EXCEPT !.isLoading = TRUE, !.error = NULL]

\* setComparativeState(prev => ({ ...prev, isLoading: false }))
LoadingOff(state) == [state EXCEPT !.isLoading = FALSE]

\* The handler suspends at its await: the request and what the closure holds.
Awaiting(kind, index, closed) ==
    Append(inflight, [kind |-> kind, index |-> index, closed |-> closed])

\* The handler at position k has resumed and run to its end.
Resumed(k) ==
    [j \in 1..(Len(inflight) - 1) |->
        IF j < k THEN inflight[j] ELSE inflight[j + 1]]

formHost == << linkVars, parseVars, routeVars, titleVars, extractVars, uploadVars >>

InitForm ==
    /\ competingArticles = << EmptyArticle >>
    /\ primary = [title |-> "", content |-> "", apiKey |-> ""]
    /\ comparativeState = [isLoading |-> FALSE, result |-> NULL, error |-> NULL]
    /\ inflight = << >>
    /\ lastOp = << "mount", 1 >>
    /\ LinkIdle
    /\ ParseIdle
    /\ RouteIdle
    /\ TitleIdle
    /\ ExtractIdle
    /\ UploadIdle

\* onChange of the title, content and API key fields of the primary article.
EditPrimary ==
    \E field \in {"title", "content", "apiKey"} :
        \E value \in Typed(field) :
            /\ primary' = [primary EXCEPT ![field] = value]
            /\ UNCHANGED << competingArticles, comparativeState, inflight, lastOp,
                            formHost >>

\* handlePrimaryFileUpload up to its await (no file: return).
HandlePrimaryFileUpload ==
    \E hasFile \in BOOLEAN :
        /\ Len(inflight) < MaxInflight
        /\ IF hasFile
           THEN /\ comparativeState' = LoadingOn(comparativeState)
                /\ inflight' = Awaiting("primary", 0, << >>)
           ELSE UNCHANGED << comparativeState, inflight >>
        /\ UNCHANGED << competingArticles, primary, lastOp, formHost >>

\* handleCompetingFileUpload up to its await (no file: return).  The file
\* input is not disabled while isLoading.
HandleCompetingFileUpload ==
    \E index \in 1..Len(competingArticles), hasFile \in BOOLEAN :
        /\ Len(inflight) < MaxInflight
        /\ IF hasFile
           THEN /\ comparativeState' = LoadingOn(comparativeState)
                /\ inflight' = Awaiting("competing", index, competingArticles)
           ELSE UNCHANGED << comparativeState, inflight >>
        /\ UNCHANGED << competingArticles, primary, lastOp, formHost >>

\* handlePrimaryUrlFetch up to its await (empty url: toast and return).  Its
\* Fetch button is disabled while isLoading.
HandlePrimaryUrlFetch ==
    \E hasUrl \in BOOLEAN :
        /\ ~comparativeState.isLoading
        /\ Len(inflight) < MaxInflight
        /\ IF hasUrl
           THEN /\ comparativeState' = LoadingOn(comparativeState)
                /\ inflight' = Awaiting("primary", 0, << >>)
           ELSE UNCHANGED << comparativeState, inflight >>
        /\ UNCHANGED << competingArticles, primary, lastOp, formHost >>

\* handleCompetingUrlFetch up to its await.  Its Fetch button is disabled
\* while isLoading.
HandleCompetingUrlFetch ==
    \E index \in 1..Len(competingArticles), hasUrl \in BOOLEAN :
        /\ ~comparativeState.isLoading
        /\ Len(inflight) < MaxInflight
        /\ IF hasUrl
           THEN /\ comparativeState' = LoadingOn(comparativeState)
                /\ inflight' = Awaiting("competing", index, competingArticles)
           ELSE UNCHANGED << comparativeState, inflight >>
        /\ UNCHANGED << competingArticles, primary, lastOp, formHost >>

\* The three validations of handleSubmit all pass.
Submittable ==
    /\ primary.content # ""
    /\ primary.apiKey # ""
    /\ \E j \in 1..Len(competingArticles) : TrimValue(competingArticles[j].content) # ""

\* handleSubmit up to its await (a failed validation: toast and return).  The
\* submit button is disabled while isLoading.
HandleSubmit ==
    /\ ~comparativeState.isLoading
    /\ Len(inflight) < MaxInflight
    /\ IF Submittable
       THEN /\ comparativeState' = [isLoading |-> TRUE, result |-> NULL, error |-> NULL]
            /\ inflight' = Awaiting("compare", 0, << >>)
       ELSE UNCHANGED << comparativeState, inflight >>
    /\ UNCHANGED << competingArticles, primary, lastOp, formHost >>

\* handlePrimaryFileUpload / handlePrimaryUrlFetch after the await: the
\* response is ok.
PrimarySettlesOk(k, data) ==
    /\ k \in 1..Len(inflight)
    /\ inflight[k].kind = "primary"
    /\ primary' = [primary EXCEPT !.content = OrString(data.text, ""),
                                  !.title = IF data.title # "" THEN data.title ELSE @]
    /\ comparativeState' = LoadingOff(comparativeState)
    /\ inflight' = Resumed(k)
    /\ UNCHANGED << competingArticles, lastOp, formHost >>

\* handleCompetingFileUpload / handleCompetingUrlFetch after the await: the
\* response is ok.
CompetingSettlesOk(k, data) ==
    /\ k \in 1..Len(inflight)
    /\ inflight[k].kind = "competing"
    /\ competingArticles' = Filled(inflight[k].closed, inflight[k].index, data)
    /\ comparativeState' = LoadingOff(comparativeState)
    /\ inflight' = Resumed(k)
    /\ lastOp' = << "competingSettled", Len(competingArticles) >>
    /\ UNCHANGED << primary, formHost >>

\* Any of the four after the await: fetch rejects or the response is not ok
\* (catch: toast; finally: isLoading false).
FetchSettlesFail(k) ==
    /\ k \in 1..Len(inflight)
    /\ inflight[k].kind \in {"primary", "competing"}
    /\ comparativeState' = LoadingOff(comparativeState)
    /\ inflight' = Resumed(k)
    /\ UNCHANGED << competingArticles, primary, lastOp, formHost >>

\* handleSubmit after the await: apiRequest resolves.
CompareSettlesOk(k) ==
    /\ k \in 1..Len(inflight)
    /\ inflight[k].kind = "compare"
    /\ comparativeState' = [isLoading |-> FALSE, result |-> "result", error |-> NULL]
    /\ inflight' = Resumed(k)
    /\ UNCHANGED << competingArticles, primary, lastOp, formHost >>

\* handleSubmit after the await: apiRequest rejects.
CompareSettlesFail(k) ==
    /\ k \in 1..Len(inflight)
    /\ inflight[k].kind = "compare"
    /\ comparativeState' = [isLoading |-> FALSE, result |-> NULL,
                            error |-> "Failed to complete analysis"]
    /\ inflight' = Resumed(k)
    /\ UNCHANGED << competingArticles, primary, lastOp, formHost >>

\* addCompetingArticle
AddCompetingArticle ==
    /\ Len(competingArticles) < MaxArticles
    /\ competingArticles' = Append(competingArticles, EmptyArticle)
    /\ lastOp' = << "addCompetingArticle", Len(competingArticles) >>
    /\ UNCHANGED << primary, comparativeState, inflight, formHost >>

\* removeCompetingArticle(index)
RemoveCompetingArticle(index) ==
    /\ index \in 1..Len(competingArticles)
    /\ competingArticles' = Removed(competingArticles, index)
    /\ lastOp' = << "removeCompetingArticle", Len(competingArticles) >>
    /\ UNCHANGED << primary, comparativeState, inflight, formHost >>

\* updateCompetingArticle(index, field, value)
UpdateCompetingArticle(index, field, value) ==
    /\ index \in 1..Len(competingArticles)
    /\ competingArticles' =
           [competingArticles EXCEPT ![index] = [@ EXCEPT ![field] = value]]
    /\ lastOp' = << "updateCompetingArticle", Len(competingArticles) >>
    /\ UNCHANGED << primary, comparativeState, inflight, formHost >>

\* onClick of the Reset Form button.
ResetForm ==
    /\ primary' = [title |-> "", content |-> "", apiKey |-> ""]
    /\ competingArticles' = << EmptyArticle >>
    /\ comparativeState' = [isLoading |-> FALSE, result |-> NULL, error |-> NULL]
    /\ lastOp' = << "reset", Len(competingArticles) >>
    /\ UNCHANGED << inflight, formHost >>

\* The user works on the list of competing articles and has documents and
\* pages loaded into its entries.
NextForm ==
    \/ HandleCompetingFileUpload
    \/ HandleCompetingUrlFetch
    \/ \E k \in 1..MaxInflight, data \in Data : CompetingSettlesOk(k, data)
    \/ \E k \in 1..MaxInflight : FetchSettlesFail(k)
    \/ AddCompetingArticle
    \/ \E index \in 1..MaxArticles : RemoveCompetingArticle(index)
    \/ \E index \in 1..MaxArticles, field \in {"title", "content"} :
           UpdateCompetingArticle(index, field, "u")
    \/ ResetForm

SpecForm == InitForm /\ [][NextForm]_vars

\* The user fills the form of one competing article and submits it, loading
\* documents and pages meanwhile.
NextFormLoading ==
    \/ EditPrimary
    \/ HandlePrimaryFileUpload
    \/ HandleCompetingFileUpload
    \/ HandlePrimaryUrlFetch
    \/ HandleCompetingUrlFetch
    \/ HandleSubmit
    \/ \E k \in 1..MaxInflight, data \in Data : PrimarySettlesOk(k, data)
    \/ \E k \in 1..MaxInflight, data \in Data : CompetingSettlesOk(k, data)
    \/ \E k \in 1..MaxInflight : FetchSettlesFail(k)
    \/ \E k \in 1..MaxInflight : CompareSettlesOk(k)
    \/ \E k \in 1..MaxInflight : CompareSettlesFail(k)
    \/ \E field \in {"title", "content"} :
           \E value \in Typed(field) : UpdateCompetingArticle(1, field, value)
    \/ ResetForm

SpecFormLoading == InitForm /\ [][NextFormLoading]_vars

\* C28: whatever the user adds, removes, edits or resets, the list of
\* competing articles keeps at least one entry, and removeCompetingArticle on
\* a list of one entry leaves the list as it is.
C28_AtLeastOneArticle ==
    /\ [](Len(competingArticles) >= 1)
    /\ [][\A index \in 1..MaxArticles :
              (RemoveCompetingArticle(index) /\ Len(competingArticles) = 1)
                  => competingArticles' = competingArticles]_vars

\* removeCompetingArticle has just run on a list of one filled-in entry, and
\* the entry is still there.
C28_Witness ==
    /\ lastOp = << "removeCompetingArticle", 1 >>
    /\ Len(competingArticles) = 1
    /\ competingArticles[1].content = "u"

\* C29: when the upload or fetch for competing article i completes, the list
\* keeps its length and every entry other than i is what it was just before:
\* what the user added, removed or edited meanwhile is still there.
C29_OnlyArticleChanged ==
    [][\A k \in 1..MaxInflight, data \in Data :
           CompetingSettlesOk(k, data)
               => /\ Len(competingArticles') = Len(competingArticles)
                  /\ \A j \in 1..Len(competingArticles) :
                         j # inflight[k].index
                             => competingArticles'[j] = competingArticles[j]]_vars

\* C30: isLoading is true while a request of the form is awaited, and turns
\* false only in a step after which none is awaited.
C30_LoadingWhileInFlight ==
    /\ [](Len(inflight) > 0 => comparativeState.isLoading)
    /\ [][(comparativeState.isLoading /\ ~comparativeState'.isLoading)
              => Len(inflight') = 0]_vars

====
